---- MODULE Spec2Model ----
(***************************************************************************)
(* Configuration Service of the renderer (src/vulkan/ksvk.cpp, config.h):  *)
(* the parsed document, the Asset Table with its registered constructors,  *)
(* the Task Registry and run_all_tasks with its override resolution.       *)
(***************************************************************************)
EXTENDS Integers, Sequences, FiniteSets, TLC

\* Bounds of the model.
MaxTasks == 3
MaxOverride == 2
MaxParsers == 2
MaxParses == 2
MaxLoads == 2
MaxServiceTasks == 1
MaxServiceCalls == 1
MaxRefCalls == 2
MaxViews == 3
MaxTime == 6
MaxViewTime == 1
MaxCacheTasks == 2
MaxRuns == 2
MaxSessions == 3
MaxStaged == 4
MaxFrames == 2
MaxCount == 2
MaxCmdBufs == 4

VARIABLES
    cfg,            \* ConfigServiceInternal::cfg, the parsed document
    task_factory,   \* ConfigServiceInternal::task_factory (registered task names)
    parsers,        \* ConfigurableTable::parsers, in registration order
    assets,         \* ConfigurableTable::assets, path -> asset handle
    pc,             \* position of the control thread
    task_id,        \* loop variable of run_all_tasks
    task_table,     \* run_all_tasks' local copy of the task's table
    task_dir,       \* run_all_tasks' local task_dir
    dirs,           \* directories that exist under the output directory
    files,          \* task directory -> content of its config.toml
    trace,          \* history: what run_all_tasks and load have done, in order
    api,            \* history: the calls made on the service (counts, the last one,
                    \* and what the parsers called by the last load were shown)
    views,          \* the Argument Views alive (ConfigArgsInternal: node, time)
    float_fields,   \* ConfigServiceInternal::float_fields, node -> KeyframeFloat
    vec3_fields,    \* ConfigServiceInternal::vec3_fields, node -> KeyframeVec3
    ret,            \* what the last accessor call returned
    objects,        \* the objects built with SHUTDOWN_DTOR: alive flag, what they own
    allocator,      \* VulkanAllocator: uploadCmdBuf, stagingBuffers, the buffers made
    cmdBufManager   \* CmdBufManager: frames (cmdBufs, nextCmdBuf), frameIndex

vars == <<cfg, task_factory, parsers, assets, pc, task_id, task_table, task_dir,
          dirs, files, trace, api, views, float_fields, vec3_fields, ret,
          objects, allocator, cmdBufManager>>

vk_vars == <<objects, allocator, cmdBufManager>>

svc_vars == <<cfg, task_factory, parsers, assets, pc, task_id, task_table, task_dir,
              dirs, files, trace, api, views, float_fields, vec3_fields, ret>>

view_vars == <<views, float_fields, ret>>

tasks_vars == <<task_id, task_table, task_dir, dirs, files>>

----------------------------------------------------------------------------
\* Tables of the document: a table is a function from its keys to its values.

EmptyTable == [k \in {} |-> 0]

contains(t, k) == k \in DOMAIN t

\* toml::table::insert_or_assign
insert_or_assign(t, k, v) == [x \in DOMAIN t \cup {k} |-> IF x = k THEN v ELSE t[x]]

\* The task tables the documents are built from.
TaskTypes == {"render", "bake"}

\* Tasks that stand alone ("type" is required by the schema); an explicit
\* task_dir is any string, the name of another task's default directory too ...
PlainTables == {
    [type |-> "render", resolution |-> 64, samples |-> 16],
    [type |-> "bake", resolution |-> 128, task_dir |-> "task_1"] }

\* ... and tasks that name a base and may leave "type" to it.
DerivedTables == {
    [resolution |-> 128],
    [type |-> "bake", resolution |-> 128, task_dir |-> "task_1"] }

\* "override" is read with value<int>(): a document may give a negative one.
OverrideValues == -1 .. MaxOverride

TaskTables ==
    PlainTables
    \cup { insert_or_assign(t, "override", j) : t \in DerivedTables, j \in OverrideValues }

SeqsUpTo(S, n) == UNION { [1 .. m -> S] : m \in 0 .. n }

\* A document: whether it has a "task" array, the array, and its top-level
\* asset tables (prefix -> instance name -> construction table).
NoTables == [p \in {} |-> EmptyTable]

Doc(has, ts, tbls) == [has_task |-> has, task |-> ts, tables |-> tbls]

EmptyDoc == Doc(FALSE, <<>>, NoTables)

TaskDocs ==
    { EmptyDoc } \cup { Doc(TRUE, ts, NoTables) : ts \in SeqsUpTo(TaskTables, MaxTasks) }

----------------------------------------------------------------------------
\* Nodes of a document as an Argument View sees them

\* A node of the document under a view: its kind, the value of a literal, and
\* the children of a table (by key) or of an array (by decimal index).
NoNodes == [k \in {} |-> 0]

Node(kind, leaf, nodes) == [kind |-> kind, leaf |-> leaf, nodes |-> nodes]

\* What an empty node_view stands on.
NullNode == Node("none", 0, NoNodes)

Integer(i) == Node("integer", i, NoNodes)

Float(x) == Node("float", x, NoNodes)

Boolean(b) == Node("boolean", b, NoNodes)

String(str) == Node("string", str, NoNodes)

Table(nodes) == Node("table", 0, nodes)

Digits == <<"0", "1", "2", "3", "4", "5", "6", "7", "8", "9">>

IndexKey(i) == Digits[i + 1]

Array(elems) == Node("array", 0, [k \in { IndexKey(i - 1) : i \in 1 .. Len(elems) } |->
                                    elems[CHOOSE i \in 1 .. Len(elems) : IndexKey(i - 1) = k]])

ArraySize(node) == Cardinality(DOMAIN node.nodes)

\* toml::node_view::operator[](key): the child of a table, an empty view for
\* an absent key or a node that is no table
ChildByKey(node, key) ==
    IF node.kind = "table" /\ key \in DOMAIN node.nodes THEN node.nodes[key] ELSE NullNode

\* toml::node_view::operator[](index): the element of an array, an empty view
\* for an index outside it or a node that is no array
ChildByIndex(node, idx) ==
    IF node.kind = "array" /\ idx >= 0 /\ idx < ArraySize(node)
    THEN node.nodes[IndexKey(idx)]
    ELSE NullNode

\* ConfigArgsInternal: the node viewed (with its address, node()) and the time
View(id, node, time) == [id |-> id, node |-> node, time |-> time]

----------------------------------------------------------------------------
\* run_all_tasks

\* string_format("task_%d", task_id)
DecimalNames == <<"task_0", "task_1", "task_2", "task_3", "task_4", "task_5">>

string_format(i) == DecimalNames[i + 1]

\* Variant: the default name does not depend on the index
ResolveTaskDir_Fixed(t, i) == IF contains(t, "task_dir") THEN t["task_dir"] ELSE string_format(0)

\* lines 1809-1813: the explicit task_dir of the raw table, or task_<i>
ResolveTaskDir(t, i) == IF contains(t, "task_dir") THEN t["task_dir"] ELSE string_format(i)

\* Variant: the index test dropped
OverrideIndexOk_Any(base_task_id, i) == TRUE

\* line 1825: ASSERT(base_task_id < task_id)
OverrideIndexOk(base_task_id, i) == base_task_id < i

\* Variant: the base may itself override
OverrideBaseOk_Any(base_task_table) == TRUE

\* line 1827: ASSERT(!base_task_table.contains("override"))
OverrideBaseOk(base_task_table) == ~contains(base_task_table, "override")

\* Variant: insert instead of insert_or_assign, the base wins on a shared key
Compose_BaseWins(base_task_table, t) ==
    LET own == DOMAIN t \ {"override"}
    IN  [k \in DOMAIN base_task_table \cup own |->
            IF k \in DOMAIN base_task_table THEN base_task_table[k] ELSE t[k]]

\* lines 1828-1833: the base table overlaid by every key of the task but "override"
Compose(base_task_table, t) ==
    LET own == DOMAIN t \ {"override"}
    IN  [k \in DOMAIN base_task_table \cup own |->
            IF k \in own THEN t[k] ELSE base_task_table[k]]

\* ASSERT (assertion.h): a failed assertion ends the process
AssertFails(cond) == ~cond

\* Variant: the loop skips every other task
NextTaskId_Skip(i) == i + 2

\* line 1806: ++task_id
NextTaskId(i) == i + 1

\* Variant: a failed create_directory aborts the process
AfterCreateFailure_Abort(res) == IF res = "false" THEN "aborted" ELSE "threw"

\* lines 1795-1798 and 1817-1820: create_directory returned false: print and
\* return; an exception of create_directory leaves run_all_tasks
AfterCreateFailure(res) == IF res = "false" THEN "returned" ELSE "threw"

\* Variant: operator[] instead of at(), every type is found
TypeRegistered_Any(type) == TRUE

\* line 1842: task_factory.at(type) finds the type
TypeRegistered(type) == type \in task_factory

Event(e, i, t) == [ev |-> e, id |-> i, tbl |-> t]

Emit(e, i, t) == trace' = Append(trace, Event(e, i, t))

Terminal == {"returned", "aborted", "threw", "crashed"}

\* fs::create_directory on a path that is no directory yet: it creates the
\* directory, returns false, or throws filesystem_error.
CreateOutcomes == {"created", "false", "throw"}

\* lines 1793-1804: the output directory, then the "task" array
StartRun ==
    /\ pc = "idle"
    /\ \E exists \in BOOLEAN, res \in CreateOutcomes :
          IF ~exists /\ res # "created"
          THEN /\ pc' = AfterCreateFailure(res)
               /\ Emit(IF res = "false" THEN "mkdir_failed" ELSE "fs_error",
                       -1, EmptyTable)
          ELSE IF ~cfg.has_task
          THEN /\ pc' = "returned"
               /\ Emit("no_task", -1, EmptyTable)
          ELSE /\ pc' = "loop"
               /\ Emit("started", -1, EmptyTable)
    /\ task_id' = 0
    /\ UNCHANGED <<vk_vars, vec3_fields, cfg, task_factory, parsers, assets, task_table, task_dir, dirs, files, api, view_vars>>

\* line 1806 (loop exit): every task has run
FinishRun ==
    /\ pc = "loop"
    /\ task_id >= Len(cfg.task)
    /\ pc' = "returned"
    /\ Emit("completed", -1, EmptyTable)
    /\ UNCHANGED <<vk_vars, vec3_fields, cfg, task_factory, parsers, assets, tasks_vars, api, view_vars>>

\* lines 1806-1821: copy the task's table, resolve its directory and create it
\* unless it is a directory already (made by an earlier task, or found there)
BeginTask ==
    /\ pc = "loop"
    /\ task_id < Len(cfg.task)
    /\ LET t == cfg.task[task_id + 1]
           d == ResolveTaskDir(t, task_id)
       IN  /\ task_table' = t
           /\ task_dir' = d
           /\ \E res \in CreateOutcomes :
                IF d \in dirs \/ res = "created"
                THEN /\ dirs' = dirs \cup {d}
                     /\ pc' = "override"
                     /\ Emit("dir_ready", task_id, EmptyTable)
                ELSE /\ dirs' = dirs
                     /\ pc' = AfterCreateFailure(res)
                     /\ Emit(IF res = "false" THEN "mkdir_failed" ELSE "fs_error",
                             task_id, EmptyTable)
    /\ UNCHANGED <<vk_vars, vec3_fields, cfg, task_factory, parsers, assets, task_id, files, api, view_vars>>

\* line 1826 with an index outside the array (toml::array::operator[] does not
\* check it): undefined behaviour. The read faults, or it yields some table.
WildTables == { [type |-> "render", samples |-> 0] }

\* Variant: the base is composed where it lies in the document
AfterCompose_InPlace(doc, base_task_id, composed) ==
    [doc EXCEPT !.task[base_task_id + 1] = composed]

\* lines 1826-1833: base_task_table is a const reference into the document and
\* override_table a copy of it; the keys are written into the copy, which then
\* replaces the local task_table (itself a copy, line 1808). The document is
\* left as it was.
AfterCompose(doc, base_task_id, composed) == doc

\* lines 1823-1834: resolve the override
ResolveOverride ==
    /\ pc = "override"
    /\ IF ~contains(task_table, "override")
       THEN /\ pc' = "persist"
            /\ Emit("raw", task_id, task_table)
            /\ UNCHANGED <<task_table, cfg>>
       ELSE LET base_task_id == task_table["override"]
            IN  IF AssertFails(OverrideIndexOk(base_task_id, task_id))
                THEN /\ pc' = "aborted"
                     /\ Emit("assert_index", task_id, EmptyTable)
                     /\ UNCHANGED <<task_table, cfg>>
                ELSE IF base_task_id \notin 0 .. Len(cfg.task) - 1
                THEN \* task_array[base_task_id] outside the array: the read
                     \* faults, or whatever lies there is taken for the base
                     \E fault \in BOOLEAN, wild \in WildTables :
                        IF fault
                        THEN /\ pc' = "crashed"
                             /\ Emit("bad_index", task_id, EmptyTable)
                             /\ UNCHANGED <<task_table, cfg>>
                        ELSE /\ task_table' = Compose(wild, task_table)
                             /\ UNCHANGED cfg
                             /\ pc' = "persist"
                             /\ trace' = trace \o <<Event("bad_index", task_id, EmptyTable),
                                                    Event("composed", task_id, task_table')>>
                ELSE LET base_task_table == cfg.task[base_task_id + 1]
                     IN  IF AssertFails(OverrideBaseOk(base_task_table))
                         THEN /\ pc' = "aborted"
                              /\ Emit("assert_chain", task_id, EmptyTable)
                              /\ UNCHANGED <<task_table, cfg>>
                         ELSE /\ task_table' = Compose(base_task_table, task_table)
                              /\ cfg' = AfterCompose(cfg, base_task_id, task_table')
                              /\ pc' = "persist"
                              /\ Emit("composed", task_id, task_table')
    /\ UNCHANGED <<vk_vars, vec3_fields, task_factory, parsers, assets, task_id, task_dir, dirs, files, api, view_vars>>

\* Variant: the provenance file is not written
PersistConfig_Skipped ==
    /\ pc = "persist"
    /\ pc' = "lookup"
    /\ UNCHANGED <<vk_vars, vec3_fields, cfg, task_factory, parsers, assets, tasks_vars, trace, api, view_vars>>

\* lines 1836-1839: write the resolved table to <task_dir>/config.toml
PersistConfig ==
    /\ pc = "persist"
    /\ files' = insert_or_assign(files, task_dir, task_table)
    /\ pc' = "lookup"
    /\ Emit("persisted", task_id, task_table)
    /\ UNCHANGED <<vk_vars, vec3_fields, cfg, task_factory, parsers, assets, task_id, task_table, task_dir, dirs, api, view_vars>>

\* The keys of a task table that hold animated fields, and the node a value
\* of the table is.
AnimKeys == {"speed", "size"}

AsNode(k, v) ==
    IF k \in AnimKeys THEN v
    ELSE IF k \in {"type", "task_dir"} THEN String(v)
    ELSE Integer(v)

\* line 1844: the node_view over the local task_table
TaskNode(t) == Table([k \in DOMAIN t |-> AsNode(k, t[k])])

\* Where the nodes of the local table lie. The table is built anew in every
\* iteration (lines 1808 and 1828-1833) after the table of the iteration
\* before was destroyed, so its nodes may lie where those lay or elsewhere;
\* only the places of animated nodes are ever looked at.
HeapBlocks == {"h0", "h1"}

Blocks(t) == IF DOMAIN t \cap AnimKeys = {} THEN {"h0"} ELSE HeapBlocks

\* lines 1841-1846: look the type up, make the view and invoke the callable
Dispatch ==
    /\ pc = "lookup"
    /\ IF TypeRegistered(task_table["type"])
       THEN /\ pc' = "in_task"
            /\ Emit("dispatched", task_id, task_table)
            /\ \E block \in Blocks(task_table) :
                  views' = <<View(block, TaskNode(task_table), 0)>>
       ELSE /\ pc' = "threw"
            /\ Emit("out_of_range", task_id, EmptyTable)
            /\ UNCHANGED views
    /\ UNCHANGED <<vk_vars, vec3_fields, cfg, task_factory, parsers, assets, tasks_vars, api, float_fields, ret>>

\* line 1846-1849: the callable returns, args and the local table are
\* destroyed, the loop goes on
TaskReturns ==
    /\ pc = "in_task"
    /\ pc' = "loop"
    /\ task_id' = NextTaskId(task_id)
    /\ Emit("done", task_id, EmptyTable)
    /\ views' = <<>>
    /\ UNCHANGED <<vk_vars, vec3_fields, cfg, task_factory, parsers, assets, task_table, task_dir, dirs, files, api,
                   float_fields, ret>>

\* line 1846: the callable throws; unwinding destroys args and the table
TaskThrows ==
    /\ pc = "in_task"
    /\ pc' = "threw"
    /\ Emit("task_error", task_id, EmptyTable)
    /\ views' = <<>>
    /\ UNCHANGED <<vk_vars, vec3_fields, cfg, task_factory, parsers, assets, tasks_vars, api, float_fields, ret>>

\* ConfigService::register_task, lines 1880-1883
register_task(name) ==
    /\ pc = "idle"
    /\ name \notin task_factory
    /\ task_factory' = task_factory \cup {name}
    /\ UNCHANGED <<vk_vars, vec3_fields, cfg, parsers, assets, pc, tasks_vars, trace, api, view_vars>>

RegisterTask == \E name \in TaskTypes : register_task(name)

RunSteps ==
    \/ StartRun
    \/ FinishRun
    \/ BeginTask
    \/ ResolveOverride
    \/ PersistConfig
    \/ Dispatch
    \/ TaskReturns
    \/ TaskThrows

----------------------------------------------------------------------------
\* The Asset Table (ConfigurableTable) and its load

\* A node of a top-level asset table: a sub-table or a scalar.
TableNode(t) == [kind |-> "table", keys |-> t]

ScalarNode == [kind |-> "scalar", keys |-> EmptyTable]

Prefixes == {"bsdf", "texture"}

\* Instance names, in the order toml::table iterates them (sorted by key).
InstanceNames == <<"a", "b">>

BsdfNodes == { TableNode([type |-> "lambertian"]), TableNode([type |-> "phong"]), ScalarNode }

TextureNodes == { TableNode([type |-> "checker"]) }

TablesOver(names, nodes) == UNION { [ks -> nodes] : ks \in SUBSET names }

TopTables ==
    { [p \in ps |-> f[p]] :
        f \in [bsdf : TablesOver({"a", "b"}, BsdfNodes),
               texture : TablesOver({"a"}, TextureNodes)],
        ps \in SUBSET Prefixes }

AssetDocs == { Doc(FALSE, <<>>, tb) : tb \in TopTables }

\* Asset handles: the null pointer, or an object of a class built from a node.
Null == [null |-> TRUE, class |-> "", node |-> EmptyTable]

Object(class, args) == [null |-> FALSE, class |-> class, node |-> args]

\* What a constructor leaves instead of an asset when it throws.
Thrown(error) == [null |-> TRUE, class |-> error, node |-> EmptyTable]

\* ConfigurableTable::get, config.h lines 89-95, on the table as it stands
find(as, path) == IF path \in DOMAIN as THEN as[path] ELSE Null

get(path) == find(assets, path)

\* create_shader_field_color (not in src): a field named by an asset path is
\* looked up through args.asset_table(); the lookup of a path the table does
\* not hold fails with AssetNotFoundError.
create_shader_field_color(as, args) ==
    IF contains(args, "albedo") /\ find(as, args["albedo"]).null
    THEN Thrown("AssetNotFoundError")
    ELSE Object("ShaderField", args)

\* src/bsdf.cpp, lines 34-38
create_lambertian(as, args) ==
    LET albedo == create_shader_field_color(as, args)
    IN  IF albedo.null THEN albedo ELSE Object("Lambertian", args)

\* src/bsdf.cpp, lines 40-48: a null bsdf unless the type is "lambertian"
create_bsdf(as, args) ==
    IF args["type"] = "lambertian" THEN create_lambertian(as, args) ELSE Null

\* texture.h, line 101 (declared only)
create_texture(as, args) == Object("Texture", args)

\* The registrations the callers make.
Registrations == {
    [field |-> "bsdf", parser |-> "create_bsdf"],
    [field |-> "bsdf", parser |-> "create_texture"],
    [field |-> "texture", parser |-> "create_texture"] }

\* parser(args), line 1860; as is what args.asset_table() shows the parser
Invoke(parser, as, args) ==
    IF parser = "create_bsdf" THEN create_bsdf(as, args) ELSE create_texture(as, args)

\* Variant: load catches what a parser throws and goes on
Propagates_Caught(asset) == FALSE

\* line 1860: nothing in load catches an exception of the parser
Propagates(asset) == asset.null /\ asset.class # ""

\* Variant: the path is the key alone
AssetPath_KeyOnly(field, key) == key

\* line 1861: field + "." + key
AssetPath(field, key) == field \o "." \o key

\* Variant: insert_or_assign, a later asset replaces the one at the path
insert_Replace(as, path, asset) ==
    [x \in DOMAIN as \cup {path} |-> IF x = path THEN asset ELSE as[x]]

\* Variant: the asset is dropped, the table stays as it is
insert_Nothing(as, path, asset) == as

\* line 1862: unordered_map::insert keeps an entry that is already there
insert(as, path, asset) ==
    IF path \in DOMAIN as THEN as
    ELSE [x \in DOMAIN as \cup {path} |-> IF x = path THEN asset ELSE as[x]]

\* The table while load runs, and whether an exception has ended the load.
Loading(as, threw) == [assets |-> as, threw |-> threw, at |-> 0, seen |-> <<>>]

\* line 1860: the parser at position st.at of the registrations is called for
\* an entry while the table holds st.assets (what asset_table() shows it).
Seen(st, field, key) == [at |-> st.at, path |-> field \o "." \o key, visible |-> DOMAIN st.assets]

\* lines 1857-1863: for_each over the entries that are tables
RECURSIVE LoadEntries(_, _, _, _, _)
LoadEntries(st, field, parser, table, n) ==
    IF st.threw \/ n > Len(InstanceNames) THEN st
    ELSE LET key == InstanceNames[n]
         IN  IF key \in DOMAIN table /\ table[key].kind = "table"
             THEN LET asset == Invoke(parser, st.assets, table[key].keys)
                      called == [st EXCEPT !.seen = Append(@, Seen(st, field, key))]
                  IN  LoadEntries(IF Propagates(asset)
                                  THEN [called EXCEPT !.threw = TRUE]
                                  ELSE [called EXCEPT !.assets =
                                                  insert(@, AssetPath(field, key), asset)],
                                  field, parser, table, n + 1)
             ELSE LoadEntries(st, field, parser, table, n + 1)

\* lines 1854-1865: every registered parser whose field the document contains
RECURSIVE LoadParsers(_, _)
LoadParsers(st, i) ==
    IF st.threw \/ i > Len(parsers) THEN st
    ELSE LET e == parsers[i]
         IN  LoadParsers(IF contains(cfg.tables, e.field)
                         THEN LoadEntries([st EXCEPT !.at = i], e.field, e.parser,
                                          cfg.tables[e.field], 1)
                         ELSE st,
                         i + 1)

Called(name) == [api EXCEPT !.last = name]

\* ConfigService::register_asset, lines 1875-1878; register_parser, config.h 76-79
register_parser(prefix, parser) ==
    /\ pc = "idle"
    /\ Len(parsers) < MaxParsers
    /\ parsers' = Append(parsers, [field |-> prefix, parser |-> parser])
    /\ api' = Called("register_asset")
    /\ UNCHANGED <<vk_vars, vec3_fields, cfg, task_factory, assets, pc, tasks_vars, trace, view_vars>>

RegisterAsset == \E r \in Registrations : register_parser(r.field, r.parser)

\* ConfigService::load_assets, line 1885; ConfigurableTable::load, lines 1852-1866
load_assets(limit) ==
    /\ pc = "idle"
    /\ api.loads + api.failed < limit
    /\ LET st == LoadParsers(Loading(assets, FALSE), 1)
       IN  /\ assets' = st.assets
           /\ api' = IF st.threw
                     THEN [api EXCEPT !.last = "load_failed", !.failed = @ + 1, !.seen = st.seen]
                     ELSE [api EXCEPT !.last = "load_assets", !.loads = @ + 1, !.seen = st.seen]
    /\ UNCHANGED <<vk_vars, vec3_fields, cfg, task_factory, parsers, pc, tasks_vars, trace, view_vars>>

\* What parse is given: a text that denotes a document, or one toml::parse
\* rejects with a parse_error.
Source(d) == [ok |-> TRUE, doc |-> d]

Malformed == [ok |-> FALSE, doc |-> EmptyDoc]

Sources(docs) == { Source(d) : d \in docs } \cup { Malformed }

\* Variant: the catch block resets the document
OnParseError_Clear(old) == EmptyDoc

\* lines 1658-1660: the catch block prints the error; cfg was not assigned
OnParseError(old) == old

\* ConfigServiceInternal::parse, lines 1654-1661 (parse_file, lines 1645-1652,
\* is the same around toml::parse_file)
parse(src, limit) ==
    /\ pc = "idle"
    /\ api.parses < limit
    /\ cfg' = IF src.ok THEN src.doc ELSE OnParseError(cfg)
    /\ api' = [api EXCEPT !.last = IF src.ok THEN "parse" ELSE "parse_error",
                          !.parses = @ + 1,
                          !.bad = IF src.ok THEN @ ELSE @ + 1]
    /\ UNCHANGED <<vk_vars, vec3_fields, task_factory, parsers, assets, pc, tasks_vars, trace, view_vars>>

----------------------------------------------------------------------------
\* No object of the Vulkan layer has been made.
NoVulkan ==
    /\ objects = <<>>
    /\ allocator = <<>>
    /\ cmdBufManager = <<>>

\* The service after construction.
InitService ==
    /\ task_factory = {}
    /\ parsers = <<>>
    /\ assets = [p \in {} |-> 0]
    /\ pc = "idle"
    /\ task_id = 0
    /\ task_table = EmptyTable
    /\ task_dir = ""
    /\ dirs = {}
    /\ files = [d \in {} |-> EmptyTable]
    /\ trace = <<>>
    /\ api = [parses |-> 0, bad |-> 0, loads |-> 0, failed |-> 0, last |-> "none",
              seen |-> <<>>]
    /\ views = <<>>
    /\ float_fields = [n \in {} |-> 0]
    /\ vec3_fields = [n \in {} |-> 0]
    /\ ret = [kind |-> "none", value |-> 0, id |-> "", time |-> 0, hit |-> FALSE]
    /\ NoVulkan

\* A service that has parsed a document of tasks.
InitTasks ==
    /\ cfg \in TaskDocs
    /\ InitService

NextTasks ==
    \/ RegisterTask
    \/ RunSteps

SpecTasks == InitTasks /\ [][NextTasks]_vars

\* A freshly constructed service that parses documents of assets.
InitAssets ==
    /\ cfg = EmptyDoc
    /\ InitService

ParseAssets == \E src \in Sources(AssetDocs) : parse(src, MaxParses)

LoadAssets == load_assets(MaxLoads)

NextAssets ==
    \/ ParseAssets
    \/ RegisterAsset
    \/ LoadAssets

SpecAssets == InitAssets /\ [][NextAssets]_vars

\* The whole service: any order of parse, register_asset, register_task,
\* load_assets and run_all_tasks, on small documents.
ServiceTables == { tb \in TopTables : \A p \in DOMAIN tb : DOMAIN tb[p] = {"a"} }

ServiceDocs ==
    { Doc(TRUE, ts, tb) : ts \in SeqsUpTo(PlainTables, MaxServiceTasks), tb \in ServiceTables }

Init ==
    /\ cfg = EmptyDoc
    /\ InitService

ParseService == \E src \in Sources(ServiceDocs) : parse(src, MaxServiceCalls)

LoadService == load_assets(MaxServiceCalls)

Next ==
    \/ ParseService
    \/ RegisterAsset
    \/ RegisterTask
    \/ LoadService
    \/ RunSteps

Spec == Init /\ [][Next]_vars

\* A service whose documents hold bsdf entries that name another asset as
\* their albedo, and whose callers look assets up.
Plain == TableNode([type |-> "lambertian"])

RefTo(path) == TableNode([type |-> "lambertian", albedo |-> path])

BsdfRefTables == {
    [k \in {} |-> Plain],
    [a |-> Plain],
    [a |-> RefTo("texture.a")],
    [a |-> RefTo("bsdf.b"), b |-> Plain],
    [a |-> Plain, b |-> RefTo("bsdf.a")],
    [a |-> RefTo("texture.a"), b |-> RefTo("bsdf.a")] }

RefTables ==
    { [bsdf |-> b, texture |-> t] :
        b \in BsdfRefTables, t \in TablesOver({"a"}, TextureNodes) }

RefTasks == <<[type |-> "render", resolution |-> 64, samples |-> 16]>>

RefDocs == { Doc(TRUE, RefTasks, tb) : tb \in RefTables }

RefRegistrations == {
    [field |-> "bsdf", parser |-> "create_bsdf"],
    [field |-> "texture", parser |-> "create_texture"] }

GetPaths == {"bsdf.a", "bsdf.zz"}

\* Variant: the lookup goes through operator[], which adds an absent path
Get_Inserts ==
    /\ pc \in {"idle", "in_task"}
    /\ \E path \in GetPaths :
          /\ ret' = [kind |-> "asset", path |-> path, value |-> get(path)]
          /\ assets' = insert(assets, path, Null)
    /\ UNCHANGED <<vk_vars, vec3_fields, cfg, task_factory, parsers, pc, tasks_vars, trace, api,
                   views, float_fields>>

\* asset_table().get(path), by the caller or by a task callable
Get ==
    /\ pc \in {"idle", "in_task"}
    /\ \E path \in GetPaths : ret' = [kind |-> "asset", path |-> path, value |-> get(path)]
    /\ UNCHANGED <<vk_vars, vec3_fields, cfg, task_factory, parsers, assets, pc, tasks_vars, trace, api,
                   views, float_fields>>

ParseRefs == \E src \in Sources(RefDocs) : parse(src, MaxRefCalls)

RegisterRef == \E r \in RefRegistrations : register_parser(r.field, r.parser)

LoadRefs == load_assets(MaxRefCalls)

RegisterRender == register_task("render")

NextRefs ==
    \/ ParseRefs
    \/ RegisterRef
    \/ LoadRefs
    \/ Get
    \/ RegisterRender
    \/ RunSteps

SpecRefs == Init /\ [][NextRefs]_vars

----------------------------------------------------------------------------
\* Argument Views (ConfigArgs) and the Keyframe Field cache

\* The step of an index, as text.
IndexStep(idx) == IF idx \in 0 .. 9 THEN IndexKey(idx) ELSE "?"

\* The address of a child node; an empty view has no node.
ChildId(id, node, step) == IF node = NullNode THEN "null" ELSE id \o "." \o step

\* Variant: the child starts at time 0
ChildTime_Zero(parent) == 0

\* lines 1980 and 1989: child.args->time = args->time
ChildTime(parent) == parent.time

\* ConfigArgs::operator[](std::string_view), lines 1975-1982
IndexByKey(parent, key) ==
    LET node == ChildByKey(parent.node, key)
    IN  View(ChildId(parent.id, node, key), node, ChildTime(parent))

\* ConfigArgs::operator[](int), lines 1984-1991
IndexByIdx(parent, idx) ==
    LET node == ChildByIndex(parent.node, idx)
    IN  View(ChildId(parent.id, node, IndexStep(idx)), node, ChildTime(parent))

Times == 0 .. MaxTime

\* What an accessor returned (or that it ended the process), and for which
\* node and time.
Returned(kind, value, id, time) ==
    [kind |-> kind, value |-> value, id |-> id, time |-> time, hit |-> FALSE]

\* The same, for a field that was found in the cache.
Cached(r) == [r EXCEPT !.hit = TRUE]

\* KeyframeFloat: the samples of an animated field.
Field(times, values) == [times |-> times, values |-> values]

\* A table with the "times" and "values" arrays of an animated field.
Anim(times, values) == Table([times |-> times, values |-> values])

Numbers(seq) == Array([i \in 1 .. Len(seq) |-> Float(seq[i])])

\* toml::node_view::is_number
IsNumber(node) == node.kind \in {"integer", "float"}

\* What is read through an empty optional or past the end of an array.
Garbage == {0, 77}

\* *arr[i].value<float>(), lines 1676-1677 (i counts from 1 here): the number
\* of the element; an unspecified value for an element that is no number or
\* lies past the end of the array
ElemValues(arr, i) ==
    IF i > ArraySize(arr) THEN Garbage
    ELSE LET e == arr.nodes[IndexKey(i - 1)]
         IN  IF IsNumber(e) THEN {e.leaf} ELSE Garbage

\* Variant: every sample takes the first value
SampleIndex_First(i) == 1

\* line 1677: field.values[i] = *values[i].value<float>()
SampleIndex(i) == i

\* lines 1670-1679: the fields the loop can build from the two arrays. The
\* values are resized to the length of "values"; the loop runs over "times".
FieldsOf(times, values) ==
    LET nt == ArraySize(times)
        nv == ArraySize(values)
        len == IF nt > nv THEN nt ELSE nv
        tvals == UNION { ElemValues(times, i) : i \in 1 .. nt }
        vvals == {0} \cup UNION { ElemValues(values, SampleIndex(i)) : i \in 1 .. nt }
    IN  { Field(ts, vs) :
            ts \in { f \in [1 .. nt -> tvals] :
                       \A i \in 1 .. nt : f[i] \in ElemValues(times, i) },
            vs \in { f \in [1 .. len -> vvals] :
                       \A i \in 1 .. len :
                           IF i <= nt THEN f[i] \in ElemValues(values, SampleIndex(i))
                           ELSE f[i] = 0 } }

\* lines 1670-1671: *args["times"].as_array() goes through a null pointer
\* when the node has no such array; the access ends the process.
NullArray(node) ==
    \/ ChildByKey(node, "times").kind # "array"
    \/ ChildByKey(node, "values").kind # "array"

\* line 1677 reads (and line 1677 writes) past the end when "times" is longer
PastEnd(node) == ArraySize(ChildByKey(node, "times")) > ArraySize(ChildByKey(node, "values"))

\* KeyframeFloat::eval (keyframe.h, not in src): clamped below the first and
\* above the last sample, linear between two samples.
eval(field, time) ==
    LET n == Len(field.times)
    IN  IF time <= field.times[1] THEN field.values[1]
        ELSE IF time >= field.times[n] THEN field.values[n]
        ELSE LET i == CHOOSE j \in 1 .. n - 1 :
                          field.times[j] <= time /\ time < field.times[j + 1]
             IN  field.values[i]
                 + ((time - field.times[i]) * (field.values[i + 1] - field.values[i]))
                   \div (field.times[i + 1] - field.times[i])

\* One way a call can end: what it returns, the cache it leaves, and whether
\* it ended the process.
Outcome(r, cache, crash) == [ret |-> r, cache |-> cache, crash |-> crash]

Crash(id, time) == Outcome(Returned("crash", 0, id, time), float_fields, TRUE)

Unspecified(id, time) ==
    { Outcome(Returned("unspecified", g, id, time), float_fields, FALSE) : g \in Garbage }

\* Variant: the cache is keyed by the node and the time
CacheKey_PerTime(id, time) == id \o "@" \o Digits[time + 1]

\* lines 1667 and 1680: the cache is keyed by args.node(), the node's address
CacheKey(id, time) == id

\* ConfigServiceInternal::load_float_field, lines 1663-1683, on the node of
\* a view: the ways the call can end
load_float_field(id, node, time) ==
    LET key == CacheKey(id, time)
    IN  IF IsNumber(node)
        THEN { Outcome(Returned("float", node.leaf, id, time), float_fields, FALSE) }
        ELSE IF key \in DOMAIN float_fields
        THEN { Outcome(Cached(Returned("float", eval(float_fields[key], time), id, time)),
                       float_fields, FALSE) }
        ELSE IF NullArray(node)
        THEN { Crash(id, time) }
        ELSE LET times == ChildByKey(node, "times")
                 values == ChildByKey(node, "values")
             IN  (IF PastEnd(node) THEN { Crash(id, time) } ELSE {})
                 \cup
                 { Outcome(Returned("float", eval(f, time), id, time),
                           [x \in DOMAIN float_fields \cup {key} |->
                               IF x = key THEN f ELSE float_fields[x]],
                           FALSE) : f \in FieldsOf(times, values) }

\* The typed loaders of a literal: toml's value<T>() of the node, empty when
\* the node is absent or of a kind that does not convert to T.
ValueAs(type, node) ==
    CASE type = "integer" ->
            IF node.kind \in {"integer", "float"} THEN {node.leaf}
            ELSE IF node.kind = "boolean" THEN {IF node.leaf THEN 1 ELSE 0}
            ELSE {}
      [] type = "boolean" ->
            IF node.kind = "boolean" THEN {node.leaf}
            ELSE IF node.kind = "integer" THEN {node.leaf # 0}
            ELSE {}
      [] type = "string" ->
            IF node.kind = "string" THEN {node.leaf} ELSE {}

\* lines 1920-1922 and 1961-1967: *args[name].value<T>(); operator* of an
\* empty optional does not test it, what it yields is unspecified (and for a
\* string what it yields may end the process when it is copied)
Deref(type, node, id, time) ==
    IF ValueAs(type, node) = {}
    THEN Unspecified(id, time) \cup (IF type = "string" THEN { Crash(id, time) } ELSE {})
    ELSE { Outcome(Returned(type, x, id, time), float_fields, FALSE) : x \in ValueAs(type, node) }

\* ConfigArgs::array_size, line 1993: as_array()->size(); as_array() is null
\* for a node that is no array
array_size(id, node, time) ==
    IF node.kind = "array"
    THEN { Outcome(Returned("size", ArraySize(node), id, time), float_fields, FALSE) }
    ELSE { Crash(id, time) }

\* A call through a view ends in one of its outcomes.
Access(outcomes) ==
    /\ pc \in {"idle", "in_task"}
    /\ \E o \in outcomes :
          /\ ret' = o.ret
          /\ float_fields' = o.cache
          /\ pc' = IF o.crash THEN "crashed" ELSE pc
    /\ UNCHANGED <<vk_vars, vec3_fields, cfg, task_factory, parsers, assets, tasks_vars, trace, api, views>>

\* ConfigArgs::load_float(name), lines 1924-1927
load_float(v, name) ==
    LET child == ChildByKey(views[v].node, name)
    IN  Access(load_float_field(ChildId(views[v].id, child, name), child, views[v].time))

\* ConfigArgs::load_integer / load_bool / load_string (load_path) by name
load_literal(type, v, name) ==
    LET child == ChildByKey(views[v].node, name)
    IN  Access(Deref(type, child, ChildId(views[v].id, child, name), views[v].time))

\* ConfigArgs::load_integer(index), line 1922
load_integer_at(v, idx) ==
    LET child == ChildByIndex(views[v].node, idx)
    IN  Access(Deref("integer", child, ChildId(views[v].id, child, IndexStep(idx)), views[v].time))

ArraySizeOf(v) == Access(array_size(views[v].id, views[v].node, views[v].time))

\* A new view comes to life.
NewView(view) ==
    /\ pc = "idle"
    /\ Len(views) < MaxViews
    /\ views' = Append(views, view)
    /\ ret' = Returned("view", 0, view.id, view.time)
    /\ UNCHANGED <<vk_vars, vec3_fields, cfg, task_factory, parsers, assets, tasks_vars, trace, api, pc, float_fields>>

\* ConfigArgs::ConfigArgs(const ConfigArgs &), line 1973: a copy of the internals
CopyView(v) == NewView(views[v])

\* ConfigArgs::update_time, line 2035
update_time(v, t) ==
    /\ pc = "idle"
    /\ views' = [views EXCEPT ![v].time = t]
    /\ UNCHANGED <<vk_vars, vec3_fields, cfg, task_factory, parsers, assets, tasks_vars, trace, api, pc,
                   float_fields, ret>>

\* A service one view of which evaluates animated fields at varying times.
Samples1 == Anim(Numbers(<<1>>), Numbers(<<10>>))

Samples2 == Anim(Numbers(<<1, 3>>), Numbers(<<10, 20>>))

Samples3 == Anim(Numbers(<<1, 3, 5>>), Numbers(<<10, 20, 10>>))

WellFormed == { Samples1, Samples2, Samples3 }

NoTimes == Table([values |-> Numbers(<<10>>)])

NoValues == Table([times |-> Numbers(<<1>>)])

ScalarTimes == Anim(Float(1), Numbers(<<10>>))

LongerTimes == Anim(Numbers(<<1, 3>>), Numbers(<<10>>))

ShorterTimes == Anim(Numbers(<<1>>), Numbers(<<10, 20>>))

NotANumber == Anim(Numbers(<<1, 3>>), Array(<<Float(10), String("x")>>))

IllFormed == { NoTimes, NoValues, ScalarTimes, LongerTimes, ShorterTimes, NotANumber }

FieldDocs ==
    { Table([speed |-> a, size |-> b]) :
        a \in {Float(7)} \cup WellFormed \cup IllFormed, b \in {Float(7), Samples2} }

InitFields ==
    /\ cfg = EmptyDoc
    /\ task_factory = {}
    /\ parsers = <<>>
    /\ assets = [p \in {} |-> 0]
    /\ pc = "idle"
    /\ task_id = 0
    /\ task_table = EmptyTable
    /\ task_dir = ""
    /\ dirs = {}
    /\ files = [d \in {} |-> EmptyTable]
    /\ trace = <<>>
    /\ api = [parses |-> 0, bad |-> 0, loads |-> 0, failed |-> 0, last |-> "none",
              seen |-> <<>>]
    /\ float_fields = [n \in {} |-> 0]
    /\ vec3_fields = [n \in {} |-> 0]
    /\ ret = [kind |-> "none", value |-> 0, id |-> "", time |-> 0, hit |-> FALSE]
    /\ NoVulkan
    /\ \E root \in FieldDocs : views = <<View("root", root, 0)>>

UpdateRootTime == \E t \in Times : update_time(1, t)

LoadField == \E name \in {"speed", "size"} : load_float(1, name)

NextFields ==
    \/ UpdateRootTime
    \/ LoadField

SpecFields == InitFields /\ [][NextFields]_vars

\* A service whose views are indexed, copied, moved in time and read.
ViewRoot ==
    Table([n |-> Integer(5),
           flag |-> Boolean(TRUE),
           name |-> String("x"),
           arr |-> Array(<<Integer(1), Integer(2)>>),
           speed |-> Samples2,
           sub |-> Table([n |-> Integer(3)])])

InitViews ==
    /\ cfg = EmptyDoc
    /\ task_factory = {}
    /\ parsers = <<>>
    /\ assets = [p \in {} |-> 0]
    /\ pc = "idle"
    /\ task_id = 0
    /\ task_table = EmptyTable
    /\ task_dir = ""
    /\ dirs = {}
    /\ files = [d \in {} |-> EmptyTable]
    /\ trace = <<>>
    /\ api = [parses |-> 0, bad |-> 0, loads |-> 0, failed |-> 0, last |-> "none",
              seen |-> <<>>]
    /\ float_fields = [n \in {} |-> 0]
    /\ vec3_fields = [n \in {} |-> 0]
    /\ ret = [kind |-> "none", value |-> 0, id |-> "", time |-> 0, hit |-> FALSE]
    /\ NoVulkan
    /\ views = <<View("root", ViewRoot, 0)>>

ViewIds == 1 .. Len(views)

ViewTimes == 0 .. MaxViewTime

IndexKeys == {"sub", "arr", "missing"}

Indices == {0, 2}

LoaderKeys == {"n", "flag", "name", "arr", "missing"}

IndexKeyed == \E v \in ViewIds, key \in IndexKeys : NewView(IndexByKey(views[v], key))

IndexAt == \E v \in ViewIds, idx \in Indices : NewView(IndexByIdx(views[v], idx))

Copy == \E v \in ViewIds : CopyView(v)

UpdateTime == \E v \in ViewIds, t \in ViewTimes : update_time(v, t)

LoadFloat == \E v \in ViewIds : load_float(v, "speed")

LoadLiteral ==
    \E v \in ViewIds, type \in {"integer", "boolean", "string"}, name \in LoaderKeys :
        load_literal(type, v, name)

LoadIntegerAt == \E v \in ViewIds, idx \in Indices : load_integer_at(v, idx)

CallArraySize == \E v \in ViewIds : ArraySizeOf(v)

NextViews ==
    \/ IndexKeyed
    \/ IndexAt
    \/ Copy
    \/ UpdateTime
    \/ LoadFloat

SpecViews == InitViews /\ [][NextViews]_vars

\* A service whose root view and the view of its array are read by the
\* typed loaders.
InitLoaders ==
    /\ cfg = EmptyDoc
    /\ task_factory = {}
    /\ parsers = <<>>
    /\ assets = [p \in {} |-> 0]
    /\ pc = "idle"
    /\ task_id = 0
    /\ task_table = EmptyTable
    /\ task_dir = ""
    /\ dirs = {}
    /\ files = [d \in {} |-> EmptyTable]
    /\ trace = <<>>
    /\ api = [parses |-> 0, bad |-> 0, loads |-> 0, failed |-> 0, last |-> "none",
              seen |-> <<>>]
    /\ float_fields = [n \in {} |-> 0]
    /\ vec3_fields = [n \in {} |-> 0]
    /\ ret = [kind |-> "none", value |-> 0, id |-> "", time |-> 0, hit |-> FALSE]
    /\ NoVulkan
    /\ views = <<View("root", ViewRoot, 0), IndexByKey(View("root", ViewRoot, 0), "arr")>>

NextLoaders ==
    \/ UpdateTime
    \/ LoadLiteral
    \/ LoadIntegerAt
    \/ CallArraySize

SpecLoaders == InitLoaders /\ [][NextLoaders]_vars

\* A service whose tasks hold an animated field that their callable loads,
\* and whose caller parses and runs again after run_all_tasks has returned.
CacheTables == {
    [type |-> "render", speed |-> Samples2],
    [type |-> "render", speed |-> Samples3],
    [type |-> "render", speed |-> Samples2, size |-> Samples3] }

CacheDocs ==
    { EmptyDoc } \cup { Doc(TRUE, ts, NoTables) : ts \in SeqsUpTo(CacheTables, MaxCacheTasks) }

\* The calls of run_all_tasks so far (each leaves one event without a task).
Runs == Cardinality({ i \in DOMAIN trace : trace[i].id = -1 /\ trace[i].ev # "completed" })

ParseCache == \E src \in Sources(CacheDocs) : parse(src, MaxParses)

\* The task callable loads the animated field through its args.
TaskLoad ==
    /\ pc = "in_task"
    /\ \E name \in AnimKeys : load_float(1, name)

\* run_all_tasks has returned to its caller, who goes on using the service.
RunReturned ==
    /\ pc = "returned"
    /\ Runs < MaxRuns
    /\ pc' = "idle"
    /\ UNCHANGED <<vk_vars, vec3_fields, cfg, task_factory, parsers, assets, tasks_vars, trace, api, view_vars>>

NextCache ==
    \/ ParseCache
    \/ RegisterRender
    \/ RunSteps
    \/ TaskLoad
    \/ RunReturned

SpecCache == Init /\ [][NextCache]_vars

----------------------------------------------------------------------------
\* Animated vectors: load_vec3_field and its cache vec3_fields

\* A vec3 as a sequence of three components; the components of the model are
\* whole numbers, a vector of length 10 stands for a unit vector.
Isqrt(n) == CHOOSE r \in 0 .. n : r * r <= n /\ n < (r + 1) * (r + 1)

Norm(v) == Isqrt(v[1] * v[1] + v[2] * v[2] + v[3] * v[3])

\* vec3::normalize: the vector divided by its length (a vector of length 0
\* has no direction; the documents of the model hold none)
normalize(v) == IF Norm(v) = 0 THEN v ELSE [c \in 1 .. 3 |-> (v[c] * 10) \div Norm(v)]

\* lines 1726-1727 and 1742-1743: if (force_normalize) v.normalize()
Normalized(v, force_normalize) == IF force_normalize THEN normalize(v) ELSE v

\* lines 1724-1725 and 1740-1741: the three components *value[j].value<float>()
\* of an array node
Vec3sOf(arr) ==
    { v \in [1 .. 3 -> UNION { ElemValues(arr, c) : c \in 1 .. 3 }] :
        \A c \in 1 .. 3 : v[c] \in ElemValues(arr, c) }

\* lines 1734-1744: the fields the loop can build from "times" and "values"
\* (as many arrays of three numbers as there are times), each value
\* normalised as it is read when the flag of this call is set
Vec3FieldsOf(times, values, force_normalize) ==
    LET nt == ArraySize(times)
        tvals == UNION { ElemValues(times, i) : i \in 1 .. nt }
        vvals == UNION { { Normalized(v, force_normalize) :
                             v \in Vec3sOf(values.nodes[IndexKey(i - 1)]) } : i \in 1 .. nt }
    IN  { Field(ts, vs) :
            ts \in { f \in [1 .. nt -> tvals] :
                       \A i \in 1 .. nt : f[i] \in ElemValues(times, i) },
            vs \in { f \in [1 .. nt -> vvals] :
                       \A i \in 1 .. nt :
                          f[i] \in { Normalized(v, force_normalize) :
                                       v \in Vec3sOf(values.nodes[IndexKey(i - 1)]) } } }

\* KeyframeVec3::eval (keyframe.h, not in src): as KeyframeFloat::eval, for
\* each component
eval_vec3(field, time) ==
    [c \in 1 .. 3 |->
        eval(Field(field.times, [i \in 1 .. Len(field.values) |-> field.values[i][c]]), time)]

\* What a call asked for: a vector as it is, or a normalised one.
VecKind(force_normalize) == IF force_normalize THEN "vec3_normalized" ELSE "vec3"

\* ConfigServiceInternal::load_vec3_field, lines 1718-1749, on the node of a
\* view: the ways the call can end
load_vec3_field(id, node, force_normalize, time) ==
    LET kind == VecKind(force_normalize)
    IN  IF node.kind = "array"
        THEN { Outcome(Returned(kind, Normalized(v, force_normalize), id, time),
                       vec3_fields, FALSE) : v \in Vec3sOf(node) }
        ELSE IF id \in DOMAIN vec3_fields
        THEN { Outcome(Cached(Returned(kind, eval_vec3(vec3_fields[id], time), id, time)),
                       vec3_fields, FALSE) }
        ELSE IF NullArray(node)
        THEN { Outcome(Returned("crash", 0, id, time), vec3_fields, TRUE) }
        ELSE { Outcome(Returned(kind, eval_vec3(f, time), id, time),
                       [x \in DOMAIN vec3_fields \cup {id} |->
                           IF x = id THEN f ELSE vec3_fields[x]],
                       FALSE) :
                 f \in Vec3FieldsOf(ChildByKey(node, "times"), ChildByKey(node, "values"),
                                    force_normalize) }

\* ConfigArgs::load_vec3(name, force_normalize), lines 1941-1944 and 2012-2015
load_vec3(v, name, force_normalize) ==
    /\ pc \in {"idle", "in_task"}
    /\ LET child == ChildByKey(views[v].node, name)
       IN  \E o \in load_vec3_field(ChildId(views[v].id, child, name), child,
                                    force_normalize, views[v].time) :
              /\ ret' = o.ret
              /\ vec3_fields' = o.cache
              /\ pc' = IF o.crash THEN "crashed" ELSE pc
    /\ UNCHANGED <<vk_vars, cfg, task_factory, parsers, assets, tasks_vars, trace, api, views,
                   float_fields>>

\* A service one view of which evaluates vectors at varying times.
Vec(v) == Numbers(v)

Turn == Anim(Numbers(<<1, 3>>), Array(<<Vec(<<30, 40, 0>>), Vec(<<0, 0, 20>>)>>))

Tilt == Anim(Numbers(<<1, 3, 5>>),
             Array(<<Vec(<<0, 0, 20>>), Vec(<<30, 40, 0>>), Vec(<<0, 10, 0>>)>>))

VecDocs ==
    { Table([dir |-> a, up |-> b]) :
        a \in {Vec(<<30, 40, 0>>), Turn, Tilt}, b \in {Vec(<<0, 0, 20>>), Turn} }

VecNames == {"dir", "up", "missing"}

InitVec ==
    /\ cfg = EmptyDoc
    /\ task_factory = {}
    /\ parsers = <<>>
    /\ assets = [p \in {} |-> 0]
    /\ pc = "idle"
    /\ task_id = 0
    /\ task_table = EmptyTable
    /\ task_dir = ""
    /\ dirs = {}
    /\ files = [d \in {} |-> EmptyTable]
    /\ trace = <<>>
    /\ api = [parses |-> 0, bad |-> 0, loads |-> 0, failed |-> 0, last |-> "none",
              seen |-> <<>>]
    /\ float_fields = [n \in {} |-> 0]
    /\ vec3_fields = [n \in {} |-> 0]
    /\ ret = [kind |-> "none", value |-> 0, id |-> "", time |-> 0, hit |-> FALSE]
    /\ NoVulkan
    /\ \E root \in VecDocs : views = <<View("root", root, 0)>>

LoadVec3 == \E name \in VecNames, force_normalize \in BOOLEAN : load_vec3(1, name, force_normalize)

NextVec ==
    \/ UpdateRootTime
    \/ LoadVec3

SpecVec == InitVec /\ [][NextVec]_vars

----------------------------------------------------------------------------
\* Objects with SHUTDOWN_DTOR and NO_COPY_AND_SWAP_AS_MOVE (ksvk.h)

\* The service is idle and plays no part.
ServiceIdle ==
    /\ cfg = EmptyDoc
    /\ task_factory = {}
    /\ parsers = <<>>
    /\ assets = [p \in {} |-> 0]
    /\ pc = "idle"
    /\ task_id = 0
    /\ task_table = EmptyTable
    /\ task_dir = ""
    /\ dirs = {}
    /\ files = [d \in {} |-> EmptyTable]
    /\ trace = <<>>
    /\ api = [parses |-> 0, bad |-> 0, loads |-> 0, failed |-> 0, last |-> "none",
              seen |-> <<>>]
    /\ views = <<>>
    /\ float_fields = [n \in {} |-> 0]
    /\ vec3_fields = [n \in {} |-> 0]
    /\ ret = [kind |-> "none", value |-> 0, id |-> "", time |-> 0, hit |-> FALSE]

ObjectNames == {"a", "b", "c"}

\* An object: where it is in its life, its alive flag, how often its
\* shutdown_impl has run, and the resources it holds ("none" for the state that
\* the default constructor leaves).
Object_(life, alive, runs, owns) == [life |-> life, alive |-> alive, runs |-> runs, owns |-> owns]

\* bool alive = true (line 153), for every constructor
Constructed(owns) == Object_("live", TRUE, 0, owns)

Unborn == Object_("unborn", TRUE, 0, "none")

\* Variant: shutdown without the flag
Guarded_Always(alive) == TRUE

\* line 148: if (alive)
Guarded(alive) == alive

\* shutdown(), lines 146-152, on an object: shutdown_impl, then alive = false
Shut(o) == IF Guarded(o.alive) THEN [o EXCEPT !.runs = @ + 1, !.alive = FALSE] ELSE o

\* the resources on which shutdown_impl has run, and how often
Released(o, res) ==
    IF Guarded(o.alive) /\ o.owns # "none" THEN [res EXCEPT ![o.owns] = @ + 1] ELSE res

\* shutdown() called by the owner of the object
shutdown(n) ==
    /\ objects.obj[n].life = "live"
    /\ objects' = [obj |-> [objects.obj EXCEPT ![n] = Shut(@)],
                   res |-> Released(objects.obj[n], objects.res)]
    /\ UNCHANGED <<svc_vars, allocator, cmdBufManager>>

\* the destructor, lines 141-144: shutdown(), then the object is gone
Destructor(n) ==
    /\ objects.obj[n].life = "live"
    /\ objects' = [obj |-> [objects.obj EXCEPT ![n] = [Shut(@) EXCEPT !.life = "dead"]],
                   res |-> Released(objects.obj[n], objects.res)]
    /\ UNCHANGED <<svc_vars, allocator, cmdBufManager>>

\* friend swap, lines 258-272: every member but alive changes sides
swap(x, y) == [x EXCEPT !.owns = y.owns]

\* the move constructor, lines 160-163: default-construct, then swap
MoveConstruct(n, other) ==
    /\ objects.obj[n].life = "unborn"
    /\ objects.obj[other].life = "live"
    /\ objects' = [objects EXCEPT !.obj = [@ EXCEPT ![n] = swap(Constructed("none"), objects.obj[other]),
                                                   ![other] = swap(@, Constructed("none"))]]
    /\ UNCHANGED <<svc_vars, allocator, cmdBufManager>>

\* move assignment, lines 165-171 (this # &other)
MoveAssign(n, other) ==
    /\ n # other
    /\ objects.obj[n].life = "live"
    /\ objects.obj[other].life = "live"
    /\ objects' = [objects EXCEPT !.obj = [@ EXCEPT ![n] = swap(@, objects.obj[other]),
                                                   ![other] = swap(@, objects.obj[n])]]
    /\ UNCHANGED <<svc_vars, allocator, cmdBufManager>>

\* Two objects built by their constructors, one with resources and one
\* either way, and a place for one more to be move-constructed.
InitObjects ==
    /\ ServiceIdle
    /\ allocator = <<>>
    /\ cmdBufManager = <<>>
    /\ \E owns \in {"none", "rb"} :
          objects = [obj |-> [n \in ObjectNames |->
                                 IF n = "a" THEN Constructed("ra")
                                 ELSE IF n = "b" THEN Constructed(owns)
                                 ELSE Unborn],
                     res |-> [r \in {"ra", "rb"} |-> 0]]

CallShutdown == \E n \in ObjectNames : shutdown(n)

Destroy == \E n \in ObjectNames : Destructor(n)

MoveInto == \E n \in ObjectNames, other \in ObjectNames : MoveConstruct(n, other)

Assign == \E n \in ObjectNames, other \in ObjectNames : MoveAssign(n, other)

NextObjects ==
    \/ CallShutdown
    \/ Destroy
    \/ MoveInto
    \/ Assign

SpecObjects == InitObjects /\ [][NextObjects]_vars

----------------------------------------------------------------------------
\* VulkanAllocator: the staging session (ksvk.cpp 75-90, 158-197, 576-613)

\* VK_NULL_HANDLE
VK_NULL_HANDLE == 0

\* vk_check (ksvk.h 125-133): a negative VkResult ends the process
VkResults == {"success", "error"}

\* The allocator: whether the process still runs, the upload command buffer
\* (VK_NULL_HANDLE outside a session), the staging buffers awaiting destruction, and the
\* history: the staging buffers made (for each: the session it was made in, 0
\* outside one, the command buffer its copy was recorded in, and how often it
\* was destroyed), the sessions begun and the sessions ended.
Allocator(life, cb, staging, made, begun, ended) ==
    [life |-> life, uploadCmdBuf |-> cb, stagingBuffers |-> staging, made |-> made,
     begun |-> begun, ended |-> ended]

\* line 51 and the members' initial values
NewAllocator == Allocator("ok", VK_NULL_HANDLE, <<>>, <<>>, 0, 0)

Aborted(a) == [a EXCEPT !.life = "aborted"]

\* lines 158-173, after the assertion: a command buffer is allocated and begun
Begun(a) == [a EXCEPT !.uploadCmdBuf = a.begun + 1, !.begun = a.begun + 1]

\* lines 607-613: destroy(Buffer &) destroys a buffer whose handle is not null
Destroyed(made, b) == [made EXCEPT ![b].destroyed = @ + 1]

RECURSIVE DestroyAll(_, _)
DestroyAll(made, staging) ==
    IF staging = <<>> THEN made
    ELSE DestroyAll(Destroyed(made, Head(staging)), Tail(staging))

\* Variant: the buffers are destroyed, the list is kept
clearStagingBuffers_KeepList(a) ==
    [a EXCEPT !.made = DestroyAll(a.made, a.stagingBuffers)]

\* lines 599-605: every staging buffer is destroyed, then the list is cleared
clearStagingBuffers(a) ==
    [a EXCEPT !.made = DestroyAll(a.made, a.stagingBuffers), !.stagingBuffers = <<>>]

\* lines 193-196: the command buffer is freed and set to null, then the
\* staging buffers are cleared
Ended(a) == clearStagingBuffers([a EXCEPT !.uploadCmdBuf = VK_NULL_HANDLE, !.ended = a.ended + 1])

\* lines 576-597 and 87: a staging buffer is made and pushed onto the list, and
\* its copy is recorded in the custom command buffer or in uploadCmdBuf
Staged(a, custom) ==
    LET b == Len(a.made) + 1
    IN  [a EXCEPT !.made = Append(@, [session |-> IF a.uploadCmdBuf = VK_NULL_HANDLE THEN 0 ELSE a.begun,
                                      cb |-> IF custom THEN "custom" ELSE "upload",
                                      cb_open |-> a.uploadCmdBuf # VK_NULL_HANDLE,
                                      destroyed |-> 0]),
                  !.stagingBuffers = Append(@, b)]

RECURSIVE StagedTimes(_, _)
StagedTimes(a, k) == IF k = 0 THEN a ELSE StagedTimes(Staged(a, FALSE), k - 1)

AllocatorStep(a) ==
    /\ allocator' = a
    /\ UNCHANGED <<svc_vars, objects, cmdBufManager>>

\* VulkanAllocator::beginStagingSession, lines 158-173
beginStagingSession ==
    /\ allocator.life = "ok"
    /\ allocator.begun < MaxSessions
    /\ \E res \in VkResults :
          IF AssertFails(allocator.uploadCmdBuf = VK_NULL_HANDLE)
          THEN AllocatorStep(Aborted(allocator))
          ELSE IF res = "error"
          THEN AllocatorStep(Aborted(allocator))
          ELSE AllocatorStep(Begun(allocator))

\* VulkanAllocator::endStagingSession, lines 175-197
endStagingSession ==
    /\ allocator.life = "ok"
    /\ \E res \in VkResults :
          IF AssertFails(allocator.uploadCmdBuf # VK_NULL_HANDLE)
          THEN AllocatorStep(Aborted(allocator))
          ELSE IF res = "error"
          THEN AllocatorStep(Aborted(allocator))
          ELSE AllocatorStep(Ended(allocator))

\* VulkanAllocator::createBuffer(info, usage, data, customCmdBuf), lines 75-90
createBuffer(custom) ==
    /\ allocator.life = "ok"
    /\ Len(allocator.made) < MaxStaged
    /\ \E res \in VkResults :
          IF AssertFails(custom \/ allocator.uploadCmdBuf # VK_NULL_HANDLE)
          THEN AllocatorStep(Aborted(allocator))
          ELSE IF res = "error"
          THEN AllocatorStep(Aborted(allocator))
          ELSE AllocatorStep(Staged(allocator, custom))

\* Allocator::stage_session(work), ksvk.h 317-323, for a work that uploads k
\* buffers through the allocator's own command buffer
stage_session(k) ==
    /\ allocator.life = "ok"
    /\ allocator.begun < MaxSessions
    /\ Len(allocator.made) + k <= MaxStaged
    /\ \E res \in VkResults :
          IF AssertFails(allocator.uploadCmdBuf = VK_NULL_HANDLE)
          THEN AllocatorStep(Aborted(allocator))
          ELSE IF res = "error"
          THEN AllocatorStep(Aborted(Begun(allocator)))
          ELSE AllocatorStep(Ended(StagedTimes(Begun(allocator), k)))

InitAllocator ==
    /\ ServiceIdle
    /\ objects = <<>>
    /\ cmdBufManager = <<>>
    /\ allocator = NewAllocator

CreateBuffer == \E custom \in BOOLEAN : createBuffer(custom)

StageSession == \E k \in 0 .. MaxStaged : stage_session(k)

NextAllocator ==
    \/ beginStagingSession
    \/ endStagingSession
    \/ CreateBuffer
    \/ StageSession

SpecAllocator == InitAllocator /\ [][NextAllocator]_vars

----------------------------------------------------------------------------
\* CmdBufManager: startFrame and acquireCmdBufs (ksvk.cpp 1196-1242)

\* A frame: the command buffers of its vector, nextCmdBuf, and how many
\* command buffers were allocated from its pool.
Frame(cmdBufs, nextCmdBuf, allocated) ==
    [cmdBufs |-> cmdBufs, nextCmdBuf |-> nextCmdBuf, allocated |-> allocated]

\* The manager: whether the process still runs, the frames, frameIndex, and
\* for the last acquireCmdBufs its count, what it returned and how many
\* handles it wrote past the end of the vector.
CmdBufManager_(life, frames, frameIndex, count, returned, past_end) ==
    [life |-> life, frames |-> frames, frameIndex |-> frameIndex, count |-> count,
     returned |-> returned, past_end |-> past_end]

\* lines 1196-1206: frameCount frames, each with a pool and no command buffer
NewCmdBufManager ==
    CmdBufManager_("ok", [f \in 0 .. MaxFrames - 1 |-> Frame(<<>>, 0, 0)], 0, 0, <<>>, 0)

\* The handle of the n-th command buffer allocated from the pool of frame f.
Handle(f, n) == <<f, n>>

\* lines 1228-1237: the vector grown by count - numAvailable, and count new
\* command buffers written from index oldCount on; those that do not fit in
\* the grown vector are written past its end
Grown(frame, f, count) ==
    LET oldCount == Len(frame.cmdBufs)
        numAvailable == oldCount - frame.nextCmdBuf
        grow == count - numAvailable
    IN  [frame EXCEPT !.cmdBufs = @ \o [n \in 1 .. grow |-> Handle(f, frame.allocated + n)],
                      !.allocated = @ + count]

\* lines 1238-1240: the count command buffers from nextCmdBuf on
Taken(frame, count) ==
    [n \in 1 .. count |-> frame.cmdBufs[frame.nextCmdBuf + n]]

CmdBufStep(m) ==
    /\ cmdBufManager' = m
    /\ UNCHANGED <<svc_vars, objects, allocator>>

\* CmdBufManager::startFrame, lines 1216-1221
startFrame(frameIndex) ==
    /\ cmdBufManager.life = "ok"
    /\ \E res \in VkResults :
          IF res = "error"
          THEN CmdBufStep([cmdBufManager EXCEPT !.life = "aborted", !.frameIndex = frameIndex])
          ELSE CmdBufStep([cmdBufManager EXCEPT !.frameIndex = frameIndex,
                                                !.frames[frameIndex].nextCmdBuf = 0])

\* CmdBufManager::acquireCmdBufs, lines 1223-1242
acquireCmdBufs(count) ==
    /\ cmdBufManager.life = "ok"
    /\ LET f == cmdBufManager.frameIndex
           frame == cmdBufManager.frames[f]
           numAvailable == Len(frame.cmdBufs) - frame.nextCmdBuf
       IN  /\ Len(frame.cmdBufs) + count <= MaxCmdBufs
           /\ IF numAvailable < count
              THEN \E res \in VkResults, fault \in BOOLEAN :
                      LET grown == Grown(frame, f, count)
                          past == grown.allocated - frame.allocated
                                    - (Len(grown.cmdBufs) - Len(frame.cmdBufs))
                      IN  IF res = "error"
                          THEN CmdBufStep([cmdBufManager EXCEPT
                                   !.life = "aborted",
                                   !.frames[f].cmdBufs = grown.cmdBufs])
                          ELSE IF past > 0 /\ fault
                          THEN \* the write past the end of the vector faults
                               CmdBufStep([cmdBufManager EXCEPT
                                   !.life = "crashed",
                                   !.frames[f] = grown,
                                   !.count = count,
                                   !.past_end = past])
                          ELSE CmdBufStep([cmdBufManager EXCEPT
                                   !.frames[f] = [grown EXCEPT !.nextCmdBuf = @ + count],
                                   !.count = count,
                                   !.returned = Taken(grown, count),
                                   !.past_end = past])
              ELSE CmdBufStep([cmdBufManager EXCEPT
                       !.frames[f].nextCmdBuf = @ + count,
                       !.count = count,
                       !.returned = Taken(frame, count),
                       !.past_end = 0])

InitCmdBufs ==
    /\ ServiceIdle
    /\ objects = <<>>
    /\ allocator = <<>>
    /\ cmdBufManager = NewCmdBufManager

StartFrame == \E frameIndex \in 0 .. MaxFrames - 1 : startFrame(frameIndex)

AcquireCmdBufs == \E count \in 0 .. MaxCount : acquireCmdBufs(count)

NextCmdBufs ==
    \/ StartFrame
    \/ AcquireCmdBufs

SpecCmdBufs == InitCmdBufs /\ [][NextCmdBufs]_vars

----------------------------------------------------------------------------
\* Reading the history.

TaskIds == 0 .. Len(cfg.task) - 1

Raw(i) == cfg.task[i + 1]

Steps == 1 .. Len(trace)

LastEv == IF trace = <<>> THEN "none" ELSE trace[Len(trace)].ev

Happened(e, i) == \E n \in Steps : trace[n].ev = e /\ trace[n].id = i

Count(e) == Cardinality({ n \in Steps : trace[n].ev = e })

IsDispatch(e) == e.ev = "dispatched"

Dispatches == SelectSeq(trace, IsDispatch)

HasOverride(i) == contains(Raw(i), "override")

\* The override of task i names an earlier task that has no override itself.
ValidOverride(i) ==
    /\ Raw(i)["override"] \in 0 .. i - 1
    /\ ~HasOverride(Raw(i)["override"])

\* The type the document gives task i: its own or its base's; none when the
\* task has no type and its override names no task of the array.
ResolvedType(i) ==
    IF contains(Raw(i), "type") THEN Raw(i)["type"]
    ELSE IF Raw(i)["override"] \in TaskIds THEN Raw(Raw(i)["override"])["type"]
    ELSE "unresolved"

ValidTasks ==
    \A i \in TaskIds :
        /\ HasOverride(i) => ValidOverride(i)
        /\ ResolvedType(i) \in task_factory

----------------------------------------------------------------------------
\* Claims about run_all_tasks, checked under SpecTasks.

(* C1: for a task i with a valid override j, the table that is persisted and
   dispatched has exactly the keys of task j's raw table and of task i other
   than "override"; task i's value stands on every key of task i, task j's on
   every key only task j has. *)
C1_OverrideComposition ==
    /\ \A n \in Steps :
         LET e == trace[n]
         IN  (e.ev \in {"persisted", "dispatched"} /\ HasOverride(e.id)) =>
               LET ti == Raw(e.id)
                   own == DOMAIN ti \ {"override"}
               IN  ValidOverride(e.id) =>
                     LET b == Raw(ti["override"])
                     IN  /\ DOMAIN e.tbl = DOMAIN b \cup own
                         /\ \A k \in own : e.tbl[k] = ti[k]
                         /\ \A k \in DOMAIN b \ own : e.tbl[k] = b[k]
    /\ pc \in {"lookup", "in_task"} =>
         /\ trace[Len(trace)].tbl = task_table
         /\ files[task_dir] = task_table

C1_Witness ==
    /\ pc = "in_task"
    /\ HasOverride(task_id)
    /\ ValidOverride(task_id)
    /\ LET ti == Raw(task_id)
           b == Raw(ti["override"])
       IN  /\ \E k \in (DOMAIN ti \cap DOMAIN b) : ti[k] # b[k]
           /\ DOMAIN b \ DOMAIN ti # {}
           /\ DOMAIN ti \ (DOMAIN b \cup {"override"}) # {}

(* C2: a task i whose override is j >= i is rejected fatally: the failed
   assertion ends the process, no provenance file is written for task i, its
   callable is not invoked, and no task after i is started. *)
C2_ForwardOverrideRejected ==
    \A i \in TaskIds :
        (HasOverride(i) /\ Raw(i)["override"] >= i) =>
            /\ task_id <= i
            /\ \A n \in Steps :
                 trace[n].id >= i =>
                    /\ trace[n].id = i
                    /\ trace[n].ev \in {"dir_ready", "mkdir_failed", "fs_error", "assert_index"}
            /\ Happened("assert_index", i) => pc = "aborted"
            /\ (task_id = i /\ pc \notin {"idle", "loop", "override"}) =>
                 \/ pc = "aborted" /\ LastEv = "assert_index"
                 \/ LastEv \in {"mkdir_failed", "fs_error"}

C2_Witness ==
    /\ pc = "aborted"
    /\ LastEv = "assert_index"
    /\ task_id >= 1
    /\ task_id + 1 < Len(cfg.task)
    /\ Happened("done", task_id - 1)

(* C3: a task i whose override names a task that itself has an override is
   rejected fatally: it is not composed, not persisted and not dispatched. *)
C3_ChainedOverrideRejected ==
    \A i \in TaskIds :
        (/\ HasOverride(i)
         /\ Raw(i)["override"] \in 0 .. i - 1
         /\ HasOverride(Raw(i)["override"])) =>
            /\ ~Happened("composed", i)
            /\ ~Happened("raw", i)
            /\ ~Happened("persisted", i)
            /\ ~Happened("dispatched", i)
            /\ task_id <= i
            /\ (task_id = i /\ pc \notin {"idle", "loop", "override"}) =>
                 \/ pc = "aborted" /\ LastEv = "assert_chain"
                 \/ LastEv \in {"mkdir_failed", "fs_error"}

C3_Witness ==
    /\ pc = "aborted"
    /\ LastEv = "assert_chain"
    /\ Happened("done", Raw(task_id)["override"])

(* C4: the callables are invoked in document order 0, 1, ..., each at most
   once, the next only after the one before has returned; a run over valid
   tasks that meets no directory or callable failure invokes every one. *)
C4_SequentialDispatch ==
    /\ \A k \in 1 .. Len(Dispatches) : Dispatches[k].id = k - 1
    /\ \A m, n \in Steps :
         (m < n /\ IsDispatch(trace[m]) /\ IsDispatch(trace[n])) =>
            \E d \in m + 1 .. n - 1 : trace[d].ev = "done" /\ trace[d].id = trace[m].id
    /\ Count("dispatched") = Count("done") + (IF pc = "in_task" \/ LastEv = "task_error" THEN 1 ELSE 0)
    /\ LastEv = "completed" =>
         /\ Len(Dispatches) = Len(cfg.task)
         /\ Count("done") = Len(cfg.task)
    /\ (ValidTasks /\ pc \in Terminal) =>
         LastEv \in {"completed", "no_task", "mkdir_failed", "fs_error", "task_error"}

C4_Witness ==
    /\ LastEv = "completed"
    /\ Len(cfg.task) >= 3
    /\ \E i \in TaskIds : HasOverride(i)

(* C6: a task's directory exists before its table is resolved, the table is
   resolved (composed exactly when the task has an override) before it is
   persisted, persisted to config.toml in the task's directory before the
   callable is invoked, and the callable is invoked before the task is done;
   no step happens twice for a task. *)
C6_LifecycleOrder ==
    /\ \A n \in Steps :
         LET e == trace[n]
             Before(ev) == \E m \in 1 .. n - 1 : trace[m].ev = ev /\ trace[m].id = e.id
         IN  /\ e.ev = "raw" => Before("dir_ready") /\ ~HasOverride(e.id)
             /\ e.ev = "composed" => Before("dir_ready") /\ HasOverride(e.id)
             /\ e.ev = "persisted" => Before("raw") \/ Before("composed")
             /\ e.ev = "dispatched" =>
                  \E m \in 1 .. n - 1 :
                      /\ trace[m].ev = "persisted"
                      /\ trace[m].id = e.id
                      /\ trace[m].tbl = e.tbl
             /\ e.ev = "done" => Before("dispatched")
             /\ ~Before(e.ev) \/ e.id = -1
    /\ pc \in {"override", "persist", "lookup", "in_task"} => task_dir \in dirs
    /\ pc \in {"lookup", "in_task"} =>
         /\ task_dir \in DOMAIN files
         /\ files[task_dir] = task_table

C6_Witness ==
    /\ pc = "in_task"
    /\ task_id >= 1
    /\ Happened("composed", task_id)
    /\ Happened("raw", task_id - 1)

(* C7 as claimed: a failed directory creation aborts the process, and
   run_all_tasks returns normally only with every task executed. *)
C7_Original ==
    /\ LastEv \in {"mkdir_failed", "fs_error"} => pc \in {"aborted", "threw"}
    /\ pc = "returned" => \A i \in TaskIds : Happened("done", i)

(* C7 amended: when create_directory returns false for the output directory
   or a task directory, run_all_tasks returns normally, with that task and
   every later one neither persisted nor dispatched; when create_directory
   throws, the exception leaves run_all_tasks. It returns normally only after
   such a failure, without a task array, or with every task done. *)
C7_DirectoryFailureReturns ==
    /\ LastEv = "mkdir_failed" =>
         /\ pc = "returned"
         /\ \A n \in Steps :
              trace[n].ev \in {"persisted", "dispatched"} => trace[n].id < trace[Len(trace)].id
    /\ LastEv = "fs_error" => pc = "threw"
    /\ pc = "returned" =>
         \/ LastEv = "mkdir_failed"
         \/ LastEv = "no_task" /\ ~cfg.has_task
         \/ LastEv = "completed" /\ \A i \in TaskIds : Happened("done", i)

C7_Witness ==
    /\ pc = "returned"
    /\ LastEv = "mkdir_failed"
    /\ task_id >= 1
    /\ Happened("done", task_id - 1)
    /\ task_id < Len(cfg.task)

(* C8: when the resolved type of task i is not registered, the lookup ends
   run_all_tasks with an exception: the callable of task i is not invoked, no
   later task is started, and the tasks before i have run; no callable is
   ever invoked for a type that is not registered. *)
C8_UnregisteredTypeFatal ==
    /\ \A n \in Steps :
         trace[n].ev = "dispatched" =>
            /\ trace[n].tbl["type"] \in task_factory
            /\ ResolvedType(trace[n].id) \in task_factory \cup {"unresolved"}
    /\ \A i \in TaskIds :
         Happened("out_of_range", i) =>
            /\ pc = "threw"
            /\ LastEv = "out_of_range"
            /\ task_id = i
            /\ ResolvedType(i) \notin task_factory
            /\ \A n \in Steps : trace[n].id <= i
            /\ ~Happened("dispatched", i)
            /\ \A k \in 0 .. i - 1 : Happened("done", k)

C8_Witness ==
    /\ LastEv = "out_of_range"
    /\ task_id >= 1
    /\ task_id + 1 < Len(cfg.task)
    /\ HasOverride(task_id)
    /\ Happened("done", task_id - 1)

----------------------------------------------------------------------------
\* Claims about the Asset Table, checked under SpecAssets.

RegisteredFields == { parsers[i].field : i \in 1 .. Len(parsers) }

\* The entries of the document that load constructs: the sub-tables of the
\* top-level tables named by a registered prefix.
LoadedEntries ==
    { <<p, k>> \in Prefixes \X {"a", "b"} :
        /\ p \in RegisteredFields
        /\ p \in DOMAIN cfg.tables
        /\ k \in DOMAIN cfg.tables[p]
        /\ cfg.tables[p][k].kind = "table" }

ExpectedPaths == { e[1] \o "." \o e[2] : e \in LoadedEntries }

AllPaths == { p \o "." \o k : p \in Prefixes, k \in {"a", "b", "zz"} }

(* C9 as claimed: after load_assets, get of the path of every entry under a
   registered prefix returns a non-null handle, and get of a path with no
   entry returns null. *)
C9_Original ==
    api.last = "load_assets" =>
        /\ \A path \in ExpectedPaths : ~get(path).null
        /\ \A path \in AllPaths \ DOMAIN assets : get(path) = Null

(* C10 as claimed: after a load, the paths of the Asset Table are exactly
   prefix.key for the registered prefixes present in the document and the
   entries of their tables. *)
C10_Original ==
    api.last = "load_assets" => DOMAIN assets = ExpectedPaths

(* C10 amended: a load adds to the paths the Asset Table held before it
   exactly prefix.key for every registered prefix present as a top-level
   table and every entry of it that is a sub-table, each built by a
   constructor registered for the prefix from that sub-table; after the
   first load of a service the paths are exactly that set. *)
C10_LoadAddsExpectedPaths ==
    [][ api'.loads = api.loads + 1 =>
          /\ DOMAIN assets' = DOMAIN assets \cup ExpectedPaths
          /\ \A path \in DOMAIN assets : assets'[path] = assets[path]
          /\ \A e \in LoadedEntries :
               (e[1] \o "." \o e[2]) \notin DOMAIN assets =>
                  \E i \in 1 .. Len(parsers) :
                      /\ parsers[i].field = e[1]
                      /\ assets'[e[1] \o "." \o e[2]] =
                            Invoke(parsers[i].parser, assets, cfg.tables[e[1]][e[2]].keys)
          /\ api.loads = 0 => DOMAIN assets' = ExpectedPaths ]_vars

C10_Witness ==
    /\ api.last = "load_assets"
    /\ api.loads = 2
    /\ ExpectedPaths # {}
    /\ DOMAIN assets \ ExpectedPaths # {}
    /\ DOMAIN cfg.tables \ RegisteredFields # {}
    /\ \E p \in RegisteredFields \cap DOMAIN cfg.tables :
          \E k \in DOMAIN cfg.tables[p] : cfg.tables[p][k].kind = "scalar"

----------------------------------------------------------------------------
\* Claims about the order of the calls, checked under Spec.

(* C5 as claimed: whatever the calls made, a callable runs only after a
   load_assets has completed. *)
C5_Original == pc = "in_task" => api.loads > 0

(* C5 amended: run_all_tasks does not wait for load_assets; when load_assets
   was the last call to touch the document or the Asset Table before
   run_all_tasks, it has completed when a callable is invoked: every entry of
   the document under a registered prefix is in the Asset Table. *)
C5_LoadedBeforeTasks ==
    (pc = "in_task" /\ api.last = "load_assets") =>
        /\ api.loads > 0
        /\ ExpectedPaths \subseteq DOMAIN assets

C5_Witness ==
    /\ pc = "in_task"
    /\ api.last = "load_assets"
    /\ Cardinality(ExpectedPaths) >= 2

\* The parsers registered for a prefix, in registration order.
ParsersFor(p) ==
    LET IsField(e) == e.field = p
    IN  SelectSeq(parsers, IsField)

EntryPath(e) == e[1] \o "." \o e[2]

EntryNode(e) == cfg.tables[e[1]][e[2]].keys

(* C12 as claimed: when a path is constructed more than once (its prefix
   registered twice, or load run again), the path holds the asset constructed
   last. *)
C12_Original ==
    [][ api'.loads = api.loads + 1 =>
          \A e \in LoadedEntries :
              LET ps == ParsersFor(e[1])
              IN  assets'[EntryPath(e)] = Invoke(ps[Len(ps)].parser, assets, EntryNode(e)) ]_vars

(* C12 amended: a path is one key of the Asset Table, and when a path is
   constructed more than once the first asset stays and the later ones are
   dropped: a path that held an asset before a load holds the same asset
   after it, and a new path holds what the first parser registered for its
   prefix constructed. *)
C12_FirstConstructionKept ==
    [][ api'.loads = api.loads + 1 =>
          /\ \A path \in DOMAIN assets : assets'[path] = assets[path]
          /\ \A e \in LoadedEntries :
                EntryPath(e) \notin DOMAIN assets =>
                   assets'[EntryPath(e)] = Invoke(ParsersFor(e[1])[1].parser, assets, EntryNode(e)) ]_vars

C12_Witness ==
    /\ api.last = "load_assets"
    /\ api.loads = 2
    /\ \E e \in LoadedEntries :
          LET ps == ParsersFor(e[1])
          IN  /\ Len(ps) = 2
              /\ assets[EntryPath(e)] # Invoke(ps[1].parser, assets, EntryNode(e))
              /\ assets[EntryPath(e)] # Invoke(ps[2].parser, assets, EntryNode(e))
    /\ \E e \in LoadedEntries :
          LET ps == ParsersFor(e[1])
          IN  /\ Len(ps) = 2
              /\ assets[EntryPath(e)] = Invoke(ps[1].parser, assets, EntryNode(e))
              /\ assets[EntryPath(e)] # Invoke(ps[2].parser, assets, EntryNode(e))

----------------------------------------------------------------------------
\* Claims about references between assets and about lookups, checked under
\* SpecRefs.

HasRef(e) == contains(EntryNode(e), "albedo")

RefOf(e) == EntryNode(e)["albedo"]

\* The first parser registered for a prefix: load constructs the entries of
\* the prefix first when it reaches that parser.
FirstParser(p) ==
    CHOOSE i \in 1 .. Len(parsers) :
        /\ parsers[i].field = p
        /\ \A j \in 1 .. i - 1 : parsers[j].field # p

KeyIndex(k) == CHOOSE n \in 1 .. Len(InstanceNames) : InstanceNames[n] = k

\* load constructs entry d before entry e
Before(d, e) ==
    \/ FirstParser(d[1]) < FirstParser(e[1])
    \/ d[1] = e[1] /\ KeyIndex(d[2]) < KeyIndex(e[2])

\* The reference of entry e names a path that is not in the table when load
\* constructs e.
Forward(e) ==
    /\ HasRef(e)
    /\ RefOf(e) \notin DOMAIN assets
    /\ ~\E d \in LoadedEntries : EntryPath(d) = RefOf(e) /\ Before(d, e)

LoadStep == api'.loads + api'.failed = api.loads + api.failed + 1

(* C11: when load constructs an entry whose reference names a path not yet
   in the Asset Table, the lookup fails with AssetNotFoundError and the
   exception ends load: the entry is not constructed, in this load or a later
   one of the same state, and no asset in the table holds a reference that
   was not in the table when the asset was constructed. *)
C11_ForwardReferenceFails ==
    /\ [][ LoadStep =>
              \A e \in LoadedEntries :
                  Forward(e) =>
                     /\ api'.last = "load_failed"
                     /\ EntryPath(e) \in DOMAIN assets' =>
                          /\ EntryPath(e) \in DOMAIN assets
                          /\ assets'[EntryPath(e)] = assets[EntryPath(e)] ]_vars
    /\ [](\A path \in DOMAIN assets :
            contains(assets[path].node, "albedo") =>
                assets[path].node["albedo"] \in DOMAIN assets)

C11_Witness ==
    /\ api.last = "load_failed"
    /\ api.failed = 2
    /\ Len(parsers) = 2
    /\ parsers[1].field = "bsdf"
    /\ parsers[2].field = "texture"
    /\ "a" \in DOMAIN cfg.tables["texture"]
    /\ "a" \in DOMAIN cfg.tables["bsdf"]
    /\ contains(cfg.tables["bsdf"]["a"].keys, "albedo")
    /\ cfg.tables["bsdf"]["a"].keys["albedo"] = "texture.a"
    /\ "bsdf.a" \notin DOMAIN assets

(* C13 as claimed: once a load_assets has completed, no later operation
   changes the Asset Table. *)
C13_Original == [][ api.loads > 0 => assets' = assets ]_vars

(* C13 amended: once a load_assets has completed, no later operation removes
   or replaces an entry, and get, run_all_tasks and the task callables add
   none; only a later load_assets adds entries, for paths the table did not
   hold. *)
C13_EntriesStay ==
    [][ api.loads > 0 =>
          /\ \A path \in DOMAIN assets :
                /\ path \in DOMAIN assets'
                /\ assets'[path] = assets[path]
          /\ assets' # assets => LoadStep ]_vars

C13_Witness ==
    /\ pc = "in_task"
    /\ api.loads = 2
    /\ ret.kind = "asset"
    /\ ret.path = "bsdf.zz"
    /\ ret.value.null
    /\ "bsdf.zz" \notin DOMAIN assets
    /\ Cardinality(DOMAIN assets) = 3

----------------------------------------------------------------------------
\* Claims about parse, checked under SpecAssets.

(* C20: a parse of malformed input raises nothing to the caller and leaves
   the service as it was: the document stays the one parsed before, the empty
   document if no parse has succeeded yet, and the Asset Table is untouched;
   the service takes further calls. *)
C20_MalformedParseKeepsDocument ==
    /\ [][ api'.bad = api.bad + 1 =>
              /\ cfg' = cfg
              /\ assets' = assets
              /\ parsers' = parsers
              /\ pc' = "idle" ]_vars
    /\ [](api.parses = api.bad => cfg = EmptyDoc)

C20_Witness ==
    /\ api.last = "parse_error"
    /\ api.bad = 1
    /\ api.parses = 2
    /\ cfg # EmptyDoc
    /\ api.loads > 0

----------------------------------------------------------------------------
\* Claims about animated fields, checked under SpecFields.

FieldNames == {"speed", "size"}

FieldId(name) == "root." \o name

FieldNode(name) == ChildByKey(views[1].node, name)

\* The samples the document gives for a field: sample i of the array.
Sample(arr, i) == arr.nodes[IndexKey(i - 1)].leaf

(* C14: an evaluation of a node whose field is in the Keyframe Field cache
   leaves the cache as it is; an evaluation adds at most the entry of the
   node evaluated, no entry is ever changed or removed, and an evaluation of
   the node and time of the evaluation before it returns the same value. *)
C14_SecondEvaluationCached ==
    /\ [][ views' = views =>
             /\ \A id \in DOMAIN float_fields :
                   /\ id \in DOMAIN float_fields'
                   /\ float_fields'[id] = float_fields[id]
             /\ DOMAIN float_fields' \subseteq DOMAIN float_fields \cup {ret'.id}
             /\ ret'.id \in DOMAIN float_fields =>
                   /\ float_fields' = float_fields
                   /\ ret'.hit
             /\ (/\ ret.kind = "float"
                 /\ ret'.kind = "float"
                 /\ ret'.id = ret.id
                 /\ ret'.time = ret.time) => ret'.value = ret.value ]_vars
    /\ [](DOMAIN float_fields \subseteq { FieldId(name) : name \in FieldNames })

C14_Witness ==
    /\ ret.kind = "float"
    /\ ret.hit
    /\ ret.id = "root.speed"
    /\ ret.time = 4
    /\ ret.value = 15
    /\ Cardinality(DOMAIN float_fields) = 2

(* C15: the value of a well-formed keyframed field at time t is the first
   sample's value for t at or before the first sample, the last sample's for
   t at or after the last, and between two consecutive samples the linear
   interpolation of their values, which lies between them. *)
C15_ClampedLinearInterpolation ==
    \A name \in FieldNames :
        (ret.kind = "float" /\ ret.id = FieldId(name) /\ FieldNode(name) \in WellFormed) =>
            LET ts == ChildByKey(FieldNode(name), "times")
                vs == ChildByKey(FieldNode(name), "values")
                n == ArraySize(ts)
                t == ret.time
                v == ret.value
            IN  /\ t <= Sample(ts, 1) => v = Sample(vs, 1)
                /\ t >= Sample(ts, n) => v = Sample(vs, n)
                /\ \A i \in 1 .. n - 1 :
                      (Sample(ts, i) <= t /\ t <= Sample(ts, i + 1)) =>
                          LET t0 == Sample(ts, i)
                              t1 == Sample(ts, i + 1)
                              v0 == Sample(vs, i)
                              v1 == Sample(vs, i + 1)
                          IN  /\ (v - v0) * (t1 - t0) = (t - t0) * (v1 - v0)
                              /\ (v0 <= v /\ v <= v1) \/ (v1 <= v /\ v <= v0)

C15_Witness ==
    /\ ret.kind = "float"
    /\ ret.id = "root.speed"
    /\ FieldNode("speed") = Samples3
    /\ ret.time = 4
    /\ ret.value = 15
    /\ ~ret.hit

(* C16 as claimed: the evaluation of a node that lacks an array, whose
   arrays differ in length or hold an element that is no number fails with
   SchemaError and leaves no field in the cache. *)
C16_Original ==
    \A name \in FieldNames :
        FieldNode(name) \in IllFormed =>
            /\ FieldId(name) \notin DOMAIN float_fields
            /\ ret.id = FieldId(name) => ret.kind = "SchemaError"

----------------------------------------------------------------------------
\* Claims about Argument Views, checked under SpecViews.

\* The addresses of the nodes of a kind, one and two steps below the root.
NodeIds(kind) ==
    { "root." \o k : k \in { j \in DOMAIN ViewRoot.nodes : ViewRoot.nodes[j].kind = kind } }
    \cup
    UNION { { "root." \o k \o "." \o c :
                c \in { j \in DOMAIN ViewRoot.nodes[k].nodes :
                          ViewRoot.nodes[k].nodes[j].kind = kind } } :
            k \in DOMAIN ViewRoot.nodes }

(* C17 as claimed: indexing by an absent key or by an index outside the
   array fails, so no view ever stands on a node that does not exist. *)
C17_Original ==
    /\ \A v \in ViewIds : views[v].node # NullNode
    /\ ret.kind = "view" => ret.id # "null"

(* C18 as claimed: a scalar loader returns a value only for a literal of the
   matching kind, and no loader returns an unspecified value. *)
C18_Original ==
    /\ ret.kind # "unspecified"
    /\ ret.kind \in {"integer", "boolean", "string"} => ret.id \in NodeIds(ret.kind)

\* The steps by which a child or a copy of a view can be addressed.
ChildSteps == IndexKeys \cup { IndexStep(i) : i \in Indices }

IsChildOrCopy(new, parent) ==
    \/ new.id = parent.id
    \/ new.id = "null"
    \/ \E step \in ChildSteps : new.id = parent.id \o "." \o step

(* C19: update_time changes the time of the one view it is called on and of
   no other view; a view made by indexing or copying starts at the time its
   parent has at that moment and leaves the views made before as they are;
   an animated load through a view is evaluated at that view's time. *)
C19_UpdateTimeIsLocal ==
    [][ /\ Len(views') = Len(views) =>
             /\ Cardinality({ w \in ViewIds : views'[w] # views[w] }) <= 1
             /\ \A w \in ViewIds :
                   /\ views'[w].node = views[w].node
                   /\ views'[w].id = views[w].id
        /\ Len(views') # Len(views) =>
             /\ Len(views') = Len(views) + 1
             /\ \A w \in ViewIds : views'[w] = views[w]
             /\ \E v \in ViewIds :
                   /\ IsChildOrCopy(views'[Len(views')], views[v])
                   /\ views'[Len(views')].time = views[v].time
        /\ (views' = views /\ ret'.kind = "float") =>
             \E v \in ViewIds :
                /\ ret'.id = views[v].id \o ".speed"
                /\ ret'.time = views[v].time
                /\ ret'.value = eval(Field(<<1, 3>>, <<10, 20>>), views[v].time) ]_vars

C19_Witness ==
    /\ Len(views) = 3
    /\ views[1].time = 1
    /\ views[2].id = "root.sub"
    /\ views[2].time = 0
    /\ views[3].id = "root.sub"
    /\ views[3].time = 1
    /\ ret.kind = "float"
    /\ ret.time = 1

----------------------------------------------------------------------------
\* Claims about the Keyframe Field cache across tasks and parses, checked
\* under SpecCache.

\* The nodes below a node, as paths of keys (a document is four levels deep).
NodePaths(n) ==
    {<<>>}
    \cup { <<k>> : k \in DOMAIN n.nodes }
    \cup UNION { { <<k, j>> : j \in DOMAIN n.nodes[k].nodes } : k \in DOMAIN n.nodes }
    \cup UNION { UNION { { <<k, j, l>> : l \in DOMAIN n.nodes[k].nodes[j].nodes } :
                         j \in DOMAIN n.nodes[k].nodes } :
                 k \in DOMAIN n.nodes }

\* The nodes of a document: the root, the "task" array with its tables, and
\* the top-level asset tables with their entries.
DocNodes(d) ==
    {<<>>}
    \cup (IF d.has_task
          THEN {<<"task">>}
               \cup UNION { { <<"task", IndexKey(i - 1)>> \o p : p \in NodePaths(TaskNode(d.task[i])) } :
                            i \in 1 .. Len(d.task) }
          ELSE {})
    \cup { <<p>> : p \in DOMAIN d.tables }
    \cup UNION { { <<p, k>> : k \in DOMAIN d.tables[p] } : p \in DOMAIN d.tables }
    \cup UNION { UNION { { <<p, k, f>> : f \in DOMAIN d.tables[p][k].keys } :
                         k \in DOMAIN d.tables[p] } :
                 p \in DOMAIN d.tables }

NodeCount(d) == Cardinality(DocNodes(d))

\* The addresses of the nodes the live views can reach.
LiveNodes ==
    UNION { { ChildId(views[v].id, ChildByKey(views[v].node, k), k) :
                k \in DOMAIN views[v].node.nodes } :
            v \in DOMAIN views }

(* C21 as claimed: the Keyframe Field cache never holds more entries than
   the parsed document has nodes. *)
C21_Original == Cardinality(DOMAIN float_fields) <= NodeCount(cfg)

(* C22 as claimed: every key of the cache is the address of a node that is
   alive, and a load that finds its node in the cache is answered with the
   field built from that very node. *)
C22_Original ==
    /\ [](DOMAIN float_fields \subseteq LiveNodes)
    /\ [][ (pc = "in_task" /\ pc' = "in_task" /\ ret'.hit) =>
             LET node == ChildByKey(views[1].node, "speed")
             IN  ret'.id = ChildId(views[1].id, node, "speed") =>
                    float_fields[ret'.id]
                        \in FieldsOf(ChildByKey(node, "times"), ChildByKey(node, "values")) ]_vars

----------------------------------------------------------------------------
\* Claims about the order of construction, checked under SpecRefs.

\* The paths of the entries of a prefix that load constructs.
PathsOf(q) ==
    IF contains(cfg.tables, q)
    THEN { AssetPath(q, k) : k \in { j \in DOMAIN cfg.tables[q] : cfg.tables[q][j].kind = "table" } }
    ELSE {}

\* The prefixes registered before position i, and those registered only after it.
RegisteredBefore(i) == { parsers[j].field : j \in 1 .. i - 1 }

RegisteredAfter(i) ==
    { parsers[j].field : j \in i + 1 .. Len(parsers) } \ { parsers[j].field : j \in 1 .. i }

(* C23 as claimed: when the constructor of an entry under prefix p runs, the
   table holds every entry of the prefixes registered before p and no entry
   of a prefix registered after p. *)
C23_Original ==
    [][ LoadStep =>
          \A m \in 1 .. Len(api'.seen) :
             LET e == api'.seen[m]
             IN  /\ \A q \in RegisteredBefore(e.at) : PathsOf(q) \subseteq e.visible
                 /\ \A q \in RegisteredAfter(e.at) : PathsOf(q) \cap e.visible = {} ]_vars

(* C23: when the constructor of an entry under prefix p runs during a load,
   the table holds every entry of the prefixes registered before p, and of
   the entries of a prefix registered after p only those that were in the
   table before this load began (left there by an earlier load_assets). *)
C23_RegistrationOrder ==
    [][ LoadStep =>
          \A m \in 1 .. Len(api'.seen) :
             LET e == api'.seen[m]
             IN  /\ \A q \in RegisteredBefore(e.at) : PathsOf(q) \subseteq e.visible
                 /\ \A q \in RegisteredAfter(e.at) :
                       PathsOf(q) \cap e.visible \subseteq DOMAIN assets ]_vars

C23_Witness ==
    /\ Len(parsers) = 2
    /\ parsers[1].field = "texture"
    /\ parsers[2].field = "bsdf"
    /\ api.loads = 2
    /\ \E m \in 1 .. Len(api.seen) :
          /\ api.seen[m].at = 2
          /\ api.seen[m].path = "bsdf.a"
          /\ "texture.a" \in api.seen[m].visible
    /\ \E m \in 1 .. Len(api.seen) :
          /\ api.seen[m].at = 1
          /\ "bsdf.a" \in api.seen[m].visible

----------------------------------------------------------------------------
\* Claims about SHUTDOWN_DTOR, checked under SpecObjects.

(* C24: shutdown_impl runs at most once over the life of an object, whether
   shutdown() is called explicitly or by the destructor; once it has run the
   alive flag is false and stays false, and a further shutdown() or the
   destructor runs shutdown_impl on nothing. *)
C24_ShutdownOnce ==
    /\ [](\A n \in ObjectNames :
             /\ objects.obj[n].runs <= 1
             /\ objects.obj[n].runs = 1 => ~objects.obj[n].alive
             /\ objects.obj[n].life = "dead" => ~objects.obj[n].alive)
    /\ [][ /\ \A n \in ObjectNames :
                 ~objects.obj[n].alive =>
                     /\ ~objects'.obj[n].alive
                     /\ objects'.obj[n].runs = objects.obj[n].runs
           /\ objects'.res # objects.res =>
                 \E n \in ObjectNames :
                     /\ objects.obj[n].alive
                     /\ ~objects'.obj[n].alive
                     /\ objects'.obj[n].runs = 1 ]_vars

C24_Witness ==
    /\ objects.obj["a"].life = "dead"
    /\ objects.obj["a"].runs = 1
    /\ objects.obj["b"].life = "live"
    /\ ~objects.obj["b"].alive
    /\ objects.obj["b"].runs = 1
    /\ objects.obj["c"].life = "live"
    /\ objects.obj["c"].alive

----------------------------------------------------------------------------
(* C25: the base of an override is always a valid earlier task: whenever the
   task array is indexed for the base of task i, or task i is composed, its
   override j satisfies 0 <= j < i; a task with a negative override is
   rejected by the assertion like a forward reference. *)
C25_Original ==
    /\ \A n \in Steps :
         trace[n].ev \in {"bad_index", "composed", "assert_chain"} =>
            Raw(trace[n].id)["override"] \in 0 .. trace[n].id - 1
    /\ \A i \in TaskIds :
         (HasOverride(i) /\ Raw(i)["override"] < 0 /\ Happened("assert_index", i)) =>
            pc = "aborted"
    /\ \A i \in TaskIds :
         (HasOverride(i) /\ Raw(i)["override"] < 0) =>
            ~Happened("persisted", i)

----------------------------------------------------------------------------
\* The directory name the document gives task i, and what was persisted for it.
DirName(i) ==
    IF contains(Raw(i), "task_dir") THEN Raw(i)["task_dir"] ELSE DecimalNames[i + 1]

PersistedTable(i) ==
    trace[CHOOSE n \in Steps : trace[n].ev = "persisted" /\ trace[n].id = i].tbl

SameDirLater(i) ==
    { k \in TaskIds : k > i /\ Happened("persisted", k) /\ DirName(k) = DirName(i) }

(* C26 as stated: distinct task indices resolve to distinct task directories,
   and the provenance file written for task i is never overwritten by another
   task: once task i is persisted its directory holds task i's table. *)
C26_Original ==
    /\ \A i, k \in TaskIds :
         (i # k /\ Happened("persisted", i) /\ Happened("persisted", k)) =>
            DirName(i) # DirName(k)
    /\ \A i \in TaskIds :
         Happened("persisted", i) =>
            /\ DirName(i) \in DOMAIN files
            /\ files[DirName(i)] = PersistedTable(i)

(* C26: task i is persisted in the directory named by its explicit task_dir,
   else task_<i>; its provenance file is overwritten only by a later task
   whose directory name is the same (the same explicit task_dir, or an
   explicit task_dir equal to a default name), and then by that task's table. *)
C26_OverwrittenOnlyBySameName ==
    /\ \A i \in TaskIds :
         Happened("persisted", i) =>
            /\ DirName(i) \in DOMAIN files
            /\ DirName(i) \in dirs
            /\ LET last == IF SameDirLater(i) = {} THEN i
                           ELSE CHOOSE k \in SameDirLater(i) :
                                   \A m \in SameDirLater(i) : m <= k
               IN  files[DirName(i)] = PersistedTable(last)
    /\ DOMAIN files = { DirName(i) : i \in { k \in TaskIds : Happened("persisted", k) } }

C26_Witness ==
    /\ pc = "in_task"
    /\ task_id = 2
    /\ contains(Raw(0), "task_dir")
    /\ ~contains(Raw(1), "task_dir")
    /\ ~contains(Raw(2), "task_dir")
    /\ DirName(0) = DirName(1)
    /\ files[DirName(0)] = PersistedTable(1)
    /\ files[DirName(0)] # PersistedTable(0)
    /\ files[DirName(2)] = PersistedTable(2)

----------------------------------------------------------------------------
(* C27: no step of run_all_tasks changes the parsed document, and whenever a
   task i with a valid override j is composed, resolved or dispatched, its
   table is the composition of the raw table of j, as the document holds it,
   with the raw table of i, however many tasks were resolved before. *)
C27_DocumentUnchanged ==
    /\ [](\A n \in Steps :
            (trace[n].ev \in {"composed", "persisted", "dispatched"}
               /\ HasOverride(trace[n].id) /\ ValidOverride(trace[n].id)) =>
                  trace[n].tbl = Compose(Raw(Raw(trace[n].id)["override"]), Raw(trace[n].id)))
    /\ [][cfg' = cfg]_vars

C27_Witness ==
    /\ pc = "in_task"
    /\ task_id = 2
    /\ HasOverride(1) /\ Raw(1)["override"] = 0
    /\ HasOverride(2) /\ Raw(2)["override"] = 0
    /\ Raw(1) # Raw(2)
    /\ Happened("composed", 1)
    /\ Happened("composed", 2)
    /\ PersistedTable(1) # Raw(0)
    /\ task_table = Compose(Raw(0), Raw(2))

----------------------------------------------------------------------------
\* What the content of a node, a flag and a time determine: the vectors a load
\* of that node with that flag at that time yields when nothing was loaded
\* before.
ExpectedVec3(node, force_normalize, time) ==
    IF node.kind = "array"
    THEN { Normalized(v, force_normalize) : v \in Vec3sOf(node) }
    ELSE { eval_vec3(f, time) :
             f \in Vec3FieldsOf(ChildByKey(node, "times"), ChildByKey(node, "values"),
                                force_normalize) }

VecNodeOf(id) == CHOOSE node \in { ChildByKey(views[1].node, name) : name \in VecNames } :
                    \E name \in VecNames :
                        /\ node = ChildByKey(views[1].node, name)
                        /\ id = ChildId(views[1].id, node, name)

(* C28: the vector a load of a vec3 node returns at time t is determined by
   the node's content, the force_normalize flag of this call and t: it is
   what a first load with this flag would return, whatever flag an earlier
   load of the same node was given. *)
C28_Original ==
    ret.kind \in {"vec3", "vec3_normalized"} =>
        ret.value \in ExpectedVec3(VecNodeOf(ret.id), ret.kind = "vec3_normalized", ret.time)

----------------------------------------------------------------------------
\* The staging buffers made so far.
StagingMade == 1 .. Len(allocator.made)

InList(b) == \E n \in 1 .. Len(allocator.stagingBuffers) : allocator.stagingBuffers[n] = b

\* What a step of the allocator may do to the session.
StagingSteps ==
    /\ allocator'.begun > allocator.begun =>
          allocator.uploadCmdBuf = VK_NULL_HANDLE
    /\ allocator'.ended > allocator.ended =>
          /\ allocator.uploadCmdBuf # VK_NULL_HANDLE \/ allocator'.begun > allocator.begun
          /\ allocator'.uploadCmdBuf = VK_NULL_HANDLE
          /\ allocator'.stagingBuffers = <<>>
          /\ \A b \in 1 .. Len(allocator'.made) : allocator'.made[b].destroyed = 1
    /\ allocator'.life = "aborted" =>
          /\ allocator'.stagingBuffers = allocator.stagingBuffers
          /\ allocator'.made = allocator.made
          /\ allocator'.ended = allocator.ended

(* C29: a staging session is begun only when none is open and ended only when
   one is open (a call in the other state fails its assertion and changes
   nothing else); a copy is recorded in the allocator's own command buffer
   only while a session is open; when a session has ended the upload command
   buffer is null, the staging list is empty and every staging buffer made so
   far, those of the session among them, has been destroyed exactly once. *)
C29_StagingProtocol ==
    /\ [](/\ allocator.begun - allocator.ended \in {0, 1}
          /\ (allocator.uploadCmdBuf = VK_NULL_HANDLE) <=> (allocator.begun = allocator.ended)
          /\ \A b \in StagingMade :
                /\ allocator.made[b].cb = "upload" =>
                      allocator.made[b].cb_open /\ allocator.made[b].session >= 1
                /\ allocator.made[b].destroyed = (IF InList(b) THEN 0 ELSE 1)
                /\ (allocator.made[b].session \in 1 .. allocator.ended) =>
                      allocator.made[b].destroyed = 1)
    /\ [][StagingSteps]_vars

C29_Witness ==
    /\ allocator.life = "ok"
    /\ allocator.ended = 2
    /\ allocator.uploadCmdBuf = VK_NULL_HANDLE
    /\ allocator.stagingBuffers = <<>>
    /\ \E b \in StagingMade : allocator.made[b].session = 0 /\ allocator.made[b].destroyed = 1
    /\ \E b \in StagingMade : allocator.made[b].session = 1 /\ allocator.made[b].cb = "upload"
    /\ \E b \in StagingMade : allocator.made[b].session = 2 /\ allocator.made[b].cb = "upload"

----------------------------------------------------------------------------
(* C30: acquireCmdBufs(count) returns exactly count command buffers, all
   different; nextCmdBuf never exceeds the size of
   cmdBufs; and the
   vector holds every command buffer allocated from the frame's pool: as many
   are allocated as the vector grew by, none is written past its end. *)
C30_Original ==
    /\ cmdBufManager.life = "ok" =>
          LET r == cmdBufManager.returned
          IN  /\ Len(r) = cmdBufManager.count
              /\ \A i, j \in 1 .. Len(r) : i # j => r[i] # r[j]
    /\ \A f \in 0 .. MaxFrames - 1 :
          LET frame == cmdBufManager.frames[f]
          IN  /\ frame.nextCmdBuf <= Len(frame.cmdBufs)
              /\ cmdBufManager.life # "aborted" => frame.allocated = Len(frame.cmdBufs)
    /\ cmdBufManager.past_end = 0
    /\ cmdBufManager.life # "crashed"

====
